---- MODULE Spec2Model ----
(***************************************************************************)
(* Model of the customer-behaviour pipeline's DataProcessor                *)
(* (src/src/data/processor.py): load_data, clean_data, get_data_summary,   *)
(* create_features and get_customer_segments, with the pandas operations   *)
(* they call (to_datetime, groupby/agg, merge, rank, qcut) written out.    *)
(*                                                                         *)
(* Quantiles are computed in exact arithmetic, scaled by 5 so that every   *)
(* bin edge of a 5-quantile cut of integers is an integer.                 *)
(*                                                                         *)
(* Around the processor, CustomerBehaviorAnalysisSystem (src/main.py) with *)
(* its EmailCampaignManager (src/src/marketing/email_campaigns.py); the    *)
(* predictor and the recommendation engine follow spec.md 4.3 and 4.4.     *)
(* Spec runs the processor alone, SpecSys the system, SpecCodes the        *)
(* segment lookup on every code, SpecMail the campaign manager alone with  *)
(* its SMTP sessions, and SpecRun run_complete_analysis.                   *)
(***************************************************************************)
EXTENDS Integers, Sequences, FiniteSets, TLC

VARIABLES file, df, cleaned_df, ret,
          config, components, pc, processed_data, rfm_analysis, predictor,
          recommendation_engine, campaign_manager, predictions,
          campaign_results, outcome,
          dashboard, network, args, stage, saved

vars == <<file, df, cleaned_df, ret,
          config, components, pc, processed_data, rfm_analysis, predictor,
          recommendation_engine, campaign_manager, predictions,
          campaign_results, outcome,
          dashboard, network, args, stage, saved>>

\* what a call leaves outside the objects: the SMTP sessions of the last
\* call that mails, the arguments of the last call made on the manager
\* alone, the stage a complete run has reached, and the files written
world == <<network, args, stage, saved>>

\* the fields of the system around the processor, and the world around it
system == <<config, components, pc, processed_data, rfm_analysis, predictor,
            recommendation_engine, campaign_manager, predictions,
            campaign_results, outcome, dashboard, network, args, stage, saved>>

(***************************************************************************)
(* Bounds of the model.                                                    *)
(***************************************************************************)
\* the largest number of distinct customers in an input file
MaxCustomers == 6
\* create_features is called at most this many times on one cleaned table
MaxFeatureCalls == 2
\* the largest number of distinct customers in an input file of a system run
MaxSysCustomers == 3
\* a campaign call is made while the manager has sent at most this many mails
MaxSentBefore == 0

\* the year of the dates in the input files (the year of the test data)
BaseYear == 2015

(***************************************************************************)
(* Generic helpers.                                                        *)
(***************************************************************************)
Range(s) == {s[i] : i \in DOMAIN s}

RECURSIVE SumOver(_, _)
SumOver(S, f) ==
  IF S = {} THEN 0
  ELSE LET x == CHOOSE y \in S : TRUE IN f[x] + SumOver(S \ {x}, f)

\* the elements of a finite set of integers, ascending
RECURSIVE SortedSeq(_)
SortedSeq(S) ==
  IF S = {} THEN <<>>
  ELSE LET m == CHOOSE x \in S : \A y \in S : x <= y
       IN <<m>> \o SortedSeq(S \ {m})

(***************************************************************************)
(* Python's None, and the values a call hands back.                        *)
(***************************************************************************)
None == [kind |-> "None"]

NoError == "None"
StateErrorNotLoaded == "ValueError: Data not loaded. Call load_data() first."
StateErrorNotCleaned == "ValueError: Data not cleaned. Call clean_data() first."
DateFormatError == "ValueError: time data does not match format '%d-%m-%Y'"
BinEdgesError == "ValueError: Bin edges must be unique"
StrMinusStrError == "TypeError: unsupported operand type(s) for -: 'str' and 'str'"
FileError == "FileNotFoundError"

Returned(op, value) == [op |-> op, raised |-> NoError, value |-> value]
\* a method that has not come back yet
Running(op) == [op |-> op, raised |-> "running", value |-> None]
Raised(op, err) == [op |-> op, raised |-> err, value |-> None]

(***************************************************************************)
(* Dates.  A Date cell of the input is the text "dd-mm-yyyy", held as its  *)
(* three numeric fields; a parsed date is a timestamp [year, month, day].  *)
(***************************************************************************)
IsLeap(y) == (y % 4 = 0 /\ y % 100 # 0) \/ y % 400 = 0

DaysInMonth(m, y) ==
  IF m = 2 THEN (IF IsLeap(y) THEN 29 ELSE 28)
  ELSE IF m \in {4, 6, 9, 11} THEN 30 ELSE 31

\* strptime with '%d-%m-%Y': the text matches iff it names a calendar day
Parses(s) ==
  /\ s.mm \in 1..12
  /\ s.dd \in 1..DaysInMonth(s.mm, s.yyyy)

ToDatetime(s) == [year |-> s.yyyy, month |-> s.mm, day |-> s.dd]

RECURSIVE DaysBeforeMonth(_, _)
DaysBeforeMonth(m, y) ==
  IF m = 1 THEN 0 ELSE DaysBeforeMonth(m - 1, y) + DaysInMonth(m - 1, y)

RECURSIVE DaysBeforeYear(_)
DaysBeforeYear(y) ==
  IF y <= BaseYear THEN 0
  ELSE DaysBeforeYear(y - 1) + (IF IsLeap(y - 1) THEN 366 ELSE 365)

\* Timestamp.dayofyear
DayOfYear(t) == DaysBeforeMonth(t.month, t.year) + t.day

\* the day count a Timedelta's .days is taken from
Ordinal(t) == DaysBeforeYear(t.year) + DayOfYear(t)

\* Timestamp.dayofweek, 0 = Monday; 1 January 2015 was a Thursday
DayOfWeek(t) == (Ordinal(t) + 2) % 7

\* the order of two "dd-mm-yyyy" texts as Python compares strings
StrLE(a, b) ==
  \/ a.dd < b.dd
  \/ a.dd = b.dd /\ a.mm < b.mm
  \/ a.dd = b.dd /\ a.mm = b.mm /\ a.yyyy <= b.yyyy

TsLE(a, b) == Ordinal(a) <= Ordinal(b)

MaxTs(S) == CHOOSE t \in S : \A u \in S : TsLE(u, t)
MinTs(S) == CHOOSE t \in S : \A u \in S : TsLE(t, u)
MaxStr(S) == CHOOSE t \in S : \A u \in S : StrLE(u, t)
MinStr(S) == CHOOSE t \in S : \A u \in S : StrLE(t, u)

(***************************************************************************)
(* Tables.  A DataFrame is its column names, the dtype of its Date column  *)
(* and its rows; a row carries the cells of the columns the pipeline       *)
(* reads or derives.                                                       *)
(***************************************************************************)
RequiredCols == {"Member_number", "name", "Date", "item", "email"}
UnnamedCols == {"Unnamed: 5", "Unnamed: 6"}

\* 'Unnamed' in str(col)
ContainsUnnamed(col) == col \in UnnamedCols

DataFrame(cols, dtype, rows) ==
  [kind |-> "DataFrame", cols |-> cols, date_dtype |-> dtype, rows |-> rows]

\* Series.nunique() of a column
Members(rows) == {rows[i].Member_number : i \in DOMAIN rows}
Items(rows) == {rows[i].item : i \in DOMAIN rows}
RowsOf(rows, c) == SelectSeq(rows, LAMBDA r : r.Member_number = c)
DatesOf(rows) == {rows[i].Date : i \in DOMAIN rows}

\* the concatenation, in row order, of the row lists parts[1], parts[2], ...
RECURSIVE Concat(_)
Concat(parts) ==
  IF parts = <<>> THEN <<>> ELSE Head(parts) \o Concat(Tail(parts))

(***************************************************************************)
(* DataProcessor.load_data: read_excel of the file; the error of a file    *)
(* that cannot be read is logged and raised again, df keeps its value.     *)
(***************************************************************************)
NoFile == [kind |-> "NoFile"]

load_data ==
  /\ IF file = NoFile
       THEN /\ df' = df
            /\ ret' = Raised("load_data", FileError)
       ELSE /\ df' = file
            /\ ret' = Returned("load_data", file)
  /\ UNCHANGED <<file, cleaned_df>>

(***************************************************************************)
(* DataProcessor.clean_data.                                               *)
(***************************************************************************)
\* a copy that keeps every column of the raw table
KeepUnnamed(t) == t

\* the copy of the raw table without its 'Unnamed' columns
DropUnnamed(t) ==
  DataFrame({c \in t.cols : ~ContainsUnnamed(c)}, t.date_dtype, t.rows)

\* a conversion that looks at the first row only
FirstParses(rows) == Parses(rows[1].Date)

\* pd.to_datetime(..., format='%d-%m-%Y') raises unless every text parses
AllParse(rows) == \A i \in DOMAIN rows : Parses(rows[i].Date)

DateFeatureCols == {"day_of_month", "month", "year", "day_of_week", "day_of_year"}

WithDateFeatures(rows) ==
  [i \in DOMAIN rows |->
     LET t == ToDatetime(rows[i].Date)
     IN [Member_number |-> rows[i].Member_number,
         item |-> rows[i].item,
         Date |-> t,
         day_of_month |-> t.day,
         month |-> t.month,
         year |-> t.year,
         day_of_week |-> DayOfWeek(t),
         day_of_year |-> DayOfYear(t)]]

CustomerStatsCols == {"total_purchases", "first_purchase", "last_purchase",
                      "unique_items", "tenure_days", "purchase_frequency"}

\* statistics that take the tenure from the last purchase back to the first
CustomerStatsReversed(rows, c) ==
  LET mine == RowsOf(rows, c)
      first == MinTs(DatesOf(mine))
      last == MaxTs(DatesOf(mine))
      tenure == Ordinal(first) - Ordinal(last)
  IN [Member_number |-> c,
      total_purchases |-> Len(mine),
      first_purchase |-> first,
      last_purchase |-> last,
      unique_items |-> Cardinality(Items(mine)),
      tenure_days |-> tenure,
      purchase_frequency |-> [num |-> Len(mine), den |-> tenure + 1]]

\* groupby('Member_number').agg(...): one row per customer, keys ascending;
\* purchase_frequency is the quotient num / den
CustomerStatsOf(rows, c) ==
  LET mine == RowsOf(rows, c)
      first == MinTs(DatesOf(mine))
      last == MaxTs(DatesOf(mine))
      tenure == Ordinal(last) - Ordinal(first)
  IN [Member_number |-> c,
      total_purchases |-> Len(mine),
      first_purchase |-> first,
      last_purchase |-> last,
      unique_items |-> Cardinality(Items(mine)),
      tenure_days |-> tenure,
      purchase_frequency |-> [num |-> Len(mine), den |-> tenure + 1]]

\* statistics that keep one row per purchase instead of one per customer
CustomerStatsPerRow(rows) ==
  [k \in DOMAIN rows |-> CustomerStatsOf(rows, rows[k].Member_number)]

CustomerStats(rows) ==
  LET keys == SortedSeq(Members(rows))
  IN [k \in DOMAIN keys |-> CustomerStatsOf(rows, keys[k])]

\* left.merge(right, on='Member_number', how='left'): every left row once
\* per right row of its key, in left order
MergeOnMember(left, right) ==
  Concat([i \in DOMAIN left |->
            LET hits == SelectSeq(right,
                          LAMBDA s : s.Member_number = left[i].Member_number)
            IN [j \in DOMAIN hits |-> left[i] @@ hits[j]]])

\* a cleaning that works on the raw table itself instead of on a copy
clean_data_in_place ==
  /\ IF df = None
       THEN /\ cleaned_df' = cleaned_df
            /\ df' = df
            /\ ret' = Raised("clean_data", StateErrorNotLoaded)
       ELSE LET copy == DropUnnamed(df)
            IN IF ~AllParse(copy.rows)
                 THEN /\ cleaned_df' = copy
                      /\ df' = copy
                      /\ ret' = Raised("clean_data", DateFormatError)
                 ELSE LET dated == WithDateFeatures(copy.rows)
                          merged == MergeOnMember(dated, CustomerStats(dated))
                          out == DataFrame(copy.cols \cup DateFeatureCols
                                             \cup CustomerStatsCols,
                                           "datetime64", merged)
                      IN /\ cleaned_df' = out
                         /\ df' = out
                         /\ ret' = Returned("clean_data", out)
  /\ UNCHANGED file

clean_data ==
  /\ IF df = None
       THEN /\ cleaned_df' = cleaned_df
            /\ ret' = Raised("clean_data", StateErrorNotLoaded)
       ELSE LET copy == DropUnnamed(df)
            IN IF ~AllParse(copy.rows)
                 THEN \* the assignment of line 41 has happened
                      /\ cleaned_df' = copy
                      /\ ret' = Raised("clean_data", DateFormatError)
                 ELSE LET dated == WithDateFeatures(copy.rows)
                          merged == MergeOnMember(dated, CustomerStats(dated))
                          out == DataFrame(copy.cols \cup DateFeatureCols
                                             \cup CustomerStatsCols,
                                           "datetime64", merged)
                      IN /\ cleaned_df' = out
                         /\ ret' = Returned("clean_data", out)
  /\ UNCHANGED <<file, df>>

(***************************************************************************)
(* DataProcessor.get_data_summary.  The top-10 tables of the summary are   *)
(* not modelled; the call changes no state.                                *)
(***************************************************************************)
Summary(t) ==
  [kind |-> "Summary",
   total_records |-> Len(t.rows),
   unique_customers |-> Cardinality(Members(t.rows)),
   unique_items |-> Cardinality(Items(t.rows)),
   date_range |->
     IF t.date_dtype = "datetime64"
       THEN [start |-> MinTs(DatesOf(t.rows)), end |-> MaxTs(DatesOf(t.rows))]
       ELSE [start |-> MinStr(DatesOf(t.rows)), end |-> MaxStr(DatesOf(t.rows))]]

get_data_summary ==
  /\ IF cleaned_df = None
       THEN ret' = Raised("get_data_summary", StateErrorNotCleaned)
       ELSE ret' = Returned("get_data_summary", Summary(cleaned_df))
  /\ UNCHANGED <<file, df, cleaned_df>>

(***************************************************************************)
(* DataProcessor.create_features.                                          *)
(***************************************************************************)
ItemCountCols == {"customer_item_count", "customer_item_count_x",
                  "customer_item_count_y"}

\* the number of create_features calls a table has been through
FeatureCalls(t) == Cardinality(t.cols \cap ItemCountCols)

\* item.value_counts() looked up per row
WithItemFrequency(rows) ==
  [i \in DOMAIN rows |->
     [item_frequency |->
        Cardinality({j \in DOMAIN rows : rows[j].item = rows[i].item})]
     @@ rows[i]]

\* groupby(['Member_number', 'item']).size(): one row per pair that occurs
CustomerItemCounts(rows) ==
  LET keys == SortedSeq(Members(rows))
      ofKey(c) ==
        LET mine == RowsOf(rows, c)
            its == {mine[i].item : i \in DOMAIN mine}
            pick[S \in SUBSET its] ==
              IF S = {} THEN <<>>
              ELSE LET it == CHOOSE x \in S : TRUE
                   IN <<[Member_number |-> c, item |-> it,
                         customer_item_count |->
                           Len(SelectSeq(mine, LAMBDA r : r.item = it))]>>
                      \o pick[S \ {it}]
        IN pick[its]
  IN Concat([k \in DOMAIN keys |-> ofKey(keys[k])])

\* a column present on both sides takes the suffixes _x (left) and _y (right)
JoinItemCount(l, h) ==
  IF "customer_item_count" \in DOMAIN l
    THEN [f \in (DOMAIN l \ {"customer_item_count"})
                  \cup {"customer_item_count_x", "customer_item_count_y"} |->
            IF f = "customer_item_count_x" THEN l.customer_item_count
            ELSE IF f = "customer_item_count_y" THEN h.customer_item_count
            ELSE l[f]]
    ELSE [customer_item_count |-> h.customer_item_count] @@ l

\* merge(customer_item_counts, on=['Member_number', 'item'], how='left')
MergeOnMemberItem(left, right) ==
  Concat([i \in DOMAIN left |->
            LET hits == SelectSeq(right,
                          LAMBDA s : /\ s.Member_number = left[i].Member_number
                                     /\ s.item = left[i].item)
            IN [j \in DOMAIN hits |-> JoinItemCount(left[i], hits[j])]])

MergedCols(cols) ==
  IF "customer_item_count" \in cols
    THEN (cols \ {"customer_item_count"})
           \cup {"customer_item_count_x", "customer_item_count_y"}
    ELSE cols \cup {"customer_item_count"}

\* a season map whose Winter list lacks December
SeasonOfNoDecember(month) ==
  IF month \in {1, 2} THEN "Winter"
  ELSE IF month \in {3, 4, 5} THEN "Spring"
  ELSE IF month \in {6, 7, 8} THEN "Summer"
  ELSE IF month \in {9, 10, 11} THEN "Fall"
  ELSE "NaN"

SeasonOf(month) ==
  IF month \in {12, 1, 2} THEN "Winter"
  ELSE IF month \in {3, 4, 5} THEN "Spring"
  ELSE IF month \in {6, 7, 8} THEN "Summer"
  ELSE IF month \in {9, 10, 11} THEN "Fall"
  ELSE "NaN"

WithSeasonal(rows) ==
  [i \in DOMAIN rows |->
     [is_weekend |-> IF rows[i].day_of_week \in {5, 6} THEN 1 ELSE 0,
      season |-> SeasonOf(rows[i].month)]
     @@ rows[i]]

KeyErrorDayOfWeek == "KeyError: 'day_of_week'"

create_features ==
  /\ cleaned_df # None => FeatureCalls(cleaned_df) < MaxFeatureCalls
  /\ IF cleaned_df = None
       THEN /\ cleaned_df' = cleaned_df
            /\ ret' = Raised("create_features", StateErrorNotCleaned)
       ELSE LET freq == WithItemFrequency(cleaned_df.rows)
                merged == MergeOnMemberItem(freq, CustomerItemCounts(freq))
                cols == MergedCols(cleaned_df.cols \cup {"item_frequency"})
            IN IF "day_of_week" \notin cols
                 THEN \* a table left by a failed clean_data: lines 100 and
                      \* 104 have assigned before line 107 raises
                      /\ cleaned_df' =
                           DataFrame(cols, cleaned_df.date_dtype, merged)
                      /\ ret' = Raised("create_features", KeyErrorDayOfWeek)
                 ELSE LET out == DataFrame(cols \cup {"is_weekend", "season"},
                                           cleaned_df.date_dtype,
                                           WithSeasonal(merged))
                      IN /\ cleaned_df' = out
                         /\ ret' = Returned("create_features", out)
  /\ UNCHANGED <<file, df>>

(***************************************************************************)
(* pandas.qcut(x, 5, labels) and Series.rank(method='first').              *)
(***************************************************************************)
\* the values of xs in ascending order, repeated values kept
SortedValues(xs) ==
  [k \in DOMAIN xs |->
     CHOOSE v \in Range(xs) :
       /\ Cardinality({i \in DOMAIN xs : xs[i] < v}) < k
       /\ k <= Cardinality({i \in DOMAIN xs : xs[i] <= v})]

\* five times the k-th of the quantiles 0, 0.2, ..., 1 of xs, by linear
\* interpolation between the two order statistics around position (n-1)k/5
Edge5(xs, k) ==
  LET sorted == SortedValues(xs)
      pos5 == (Len(xs) - 1) * k
      lo == pos5 \div 5
      part == pos5 % 5
  IN IF part = 0 THEN 5 * sorted[lo + 1]
     ELSE 5 * sorted[lo + 1] + part * (sorted[lo + 2] - sorted[lo + 1])

BinEdges5(xs) == [k \in 0..5 |-> Edge5(xs, k)]

\* duplicates='raise'
EdgesUnique(edges) == \A j, k \in DOMAIN edges : j # k => edges[j] # edges[k]

\* bins.searchsorted(x, side='left'): the first edge that is not below x
SearchSortedLeft(edges, x5) ==
  CHOOSE j \in 0..6 :
    /\ \A i \in 0..(j - 1) : edges[i] < x5
    /\ j <= 5 => x5 <= edges[j]

\* the bin (1..5) of x: right-closed bins, include_lowest=True
BinOf(edges, x) ==
  IF 5 * x = edges[0] THEN 1 ELSE SearchSortedLeft(edges, 5 * x)

Qcut(xs, labels) ==
  LET edges == BinEdges5(xs)
  IN IF ~EdgesUnique(edges)
       THEN [raised |-> BinEdgesError, codes |-> <<>>]
       ELSE [raised |-> NoError,
             codes |-> [i \in DOMAIN xs |-> labels[BinOf(edges, xs[i])]]]

\* equal values ranked in reverse order of appearance
RankLast(xs) ==
  [i \in DOMAIN xs |->
     Cardinality({j \in DOMAIN xs : xs[j] < xs[i]})
       + Cardinality({j \in i..Len(xs) : xs[j] = xs[i]})]

\* no ranking: the raw values go to qcut
Unranked(xs) == xs

\* rank(method='first'): ascending, equal values ranked in order of appearance
RankFirst(xs) ==
  [i \in DOMAIN xs |->
     Cardinality({j \in DOMAIN xs : xs[j] < xs[i]})
       + Cardinality({j \in 1..i : xs[j] = xs[i]})]

(***************************************************************************)
(* DataProcessor.get_customer_segments.                                    *)
(***************************************************************************)
Champions == {"555", "554", "544", "545", "454", "455", "445"}
LoyalCustomers == {"543", "444", "435", "355", "354", "345", "344", "335"}
PotentialLoyalists == {"512", "511", "422", "421", "412", "411", "311"}
NewCustomers == {"533", "532", "531", "523", "522", "521", "515", "514", "513",
                 "425", "424", "413", "414", "415", "315", "314", "313"}
\* a list that repeats a code of the Champions list
AtRiskWithChampion == {"155", "154", "144", "214", "215", "115", "114", "555"}

AtRisk == {"155", "154", "144", "214", "215", "115", "114"}
CannotLoseThem == {"255", "254", "245", "244", "253", "252", "243", "242",
                   "235", "234", "225", "224", "153", "152", "145", "143",
                   "142", "135", "134", "125", "124"}

\* a chain without its final else: an unlisted code gets no label
segment_customers_no_default(rfm_score) ==
  IF rfm_score \in Champions THEN "Champions"
  ELSE IF rfm_score \in LoyalCustomers THEN "Loyal Customers"
  ELSE IF rfm_score \in PotentialLoyalists THEN "Potential Loyalists"
  ELSE IF rfm_score \in NewCustomers THEN "New Customers"
  ELSE IF rfm_score \in AtRisk THEN "At Risk"
  ELSE IF rfm_score \in CannotLoseThem THEN "Cannot Lose Them"
  ELSE "None"

segment_customers(rfm_score) ==
  IF rfm_score \in Champions THEN "Champions"
  ELSE IF rfm_score \in LoyalCustomers THEN "Loyal Customers"
  ELSE IF rfm_score \in PotentialLoyalists THEN "Potential Loyalists"
  ELSE IF rfm_score \in NewCustomers THEN "New Customers"
  ELSE IF rfm_score \in AtRisk THEN "At Risk"
  ELSE IF rfm_score \in CannotLoseThem THEN "Cannot Lose Them"
  ELSE "Others"

\* groupby('Member_number').agg(...): one row per customer, keys ascending
RfmOf(rows, c, current_date) ==
  LET mine == RowsOf(rows, c)
  IN [Member_number |-> c,
      Recency |-> Ordinal(current_date) - Ordinal(MaxTs(DatesOf(mine))),
      Frequency |-> Len(mine),
      Monetary |-> Cardinality(Items(mine))]

\* a table grouped by row instead of by customer
RfmTablePerRow(rows) ==
  LET current_date == MaxTs(DatesOf(rows))
  IN [k \in DOMAIN rows |-> RfmOf(rows, rows[k].Member_number, current_date)]

RfmTable(rows) ==
  LET keys == SortedSeq(Members(rows))
      current_date == MaxTs(DatesOf(rows))
  IN [k \in DOMAIN keys |-> RfmOf(rows, keys[k], current_date)]

\* the labels of Recency in the order of the other two metrics
RScoreLabelsAscending == <<1, 2, 3, 4, 5>>

RScoreLabels == <<5, 4, 3, 2, 1>>
FMScoreLabels == <<1, 2, 3, 4, 5>>

Column(rows, name) == [i \in DOMAIN rows |-> rows[i][name]]

\* str(R) + str(F) + str(M)
RfmScore(r, f, m) == ToString(r) \o ToString(f) \o ToString(m)

\* the value get_customer_segments returns, or the error it raises
CustomerSegments(t) ==
  IF t.date_dtype # "datetime64"
    THEN Raised("get_customer_segments", StrMinusStrError)
  ELSE
    LET rfm == RfmTable(t.rows)
        R == Qcut(Column(rfm, "Recency"), RScoreLabels)
        F == Qcut(RankFirst(Column(rfm, "Frequency")), FMScoreLabels)
        M == Qcut(RankFirst(Column(rfm, "Monetary")), FMScoreLabels)
    IN IF R.raised # NoError THEN Raised("get_customer_segments", R.raised)
       ELSE IF F.raised # NoError THEN Raised("get_customer_segments", F.raised)
       ELSE IF M.raised # NoError THEN Raised("get_customer_segments", M.raised)
       ELSE Returned("get_customer_segments",
              [kind |-> "Rfm",
               rows |->
                 [i \in DOMAIN rfm |->
                    LET code == RfmScore(R.codes[i], F.codes[i], M.codes[i])
                    IN [R_Score |-> R.codes[i],
                        F_Score |-> F.codes[i],
                        M_Score |-> M.codes[i],
                        RFM_Score |-> code,
                        Segment |-> segment_customers(code)] @@ rfm[i]]])

get_customer_segments ==
  /\ IF cleaned_df = None
       THEN ret' = Raised("get_customer_segments", StateErrorNotCleaned)
       ELSE ret' = CustomerSegments(cleaned_df)
  /\ UNCHANGED <<file, df, cleaned_df>>

(***************************************************************************)
(* The input files.  Customer c of a file has one of three baskets, and    *)
(* buys last on a day of its own (the later the lower its number), on the  *)
(* day of the customer after it, or on a day all customers share; rows     *)
(* come with the highest customer number first.                            *)
(***************************************************************************)
\* the text of the k-th day from 25-02-2015 on
DateText(k) ==
  IF 25 + k <= 28 THEN [dd |-> 25 + k, mm |-> 2, yyyy |-> BaseYear]
  ELSE [dd |-> k - 3, mm |-> 3, yyyy |-> BaseYear]

EarlyDateText == [dd |-> 20, mm |-> 2, yyyy |-> BaseYear]

\* texts that are no calendar day
BadDateTexts == {[dd |-> 31, mm |-> 2, yyyy |-> BaseYear],
                 [dd |-> 15, mm |-> 13, yyyy |-> BaseYear]}

RawRow(c, it, d) == [Member_number |-> c, item |-> it, Date |-> d]

Baskets == {"one", "two_items", "repeat"}

BasketRows(c, basket, last) ==
  IF basket = "one" THEN <<RawRow(c, "milk", last)>>
  ELSE IF basket = "two_items"
    THEN <<RawRow(c, "milk", EarlyDateText), RawRow(c, "bread", last)>>
  ELSE <<RawRow(c, "milk", last), RawRow(c, "milk", EarlyDateText)>>

\* customers with an odd number repeat no item, the others buy one item only
BasketChoice(c) == IF c % 2 = 1 THEN {"one", "two_items"} ELSE {"one", "repeat"}

LastDays == {"own", "next"}

LastDay(n, c, choice) ==
  IF choice = "own" THEN n + 1 - c ELSE IF choice = "next" THEN n - c ELSE 0

FileOf(n, cols, basket, day) ==
  DataFrame(cols, "object",
            Concat([j \in 1..n |->
                      LET c == n + 1 - j
                      IN BasketRows(c, basket[c],
                                    DateText(LastDay(n, c, day[c])))]))

RecencyFiles ==
  UNION {{FileOf(n, RequiredCols, [c \in 1..n |-> "one"], day) :
            day \in [1..n -> LastDays] \cup {[c \in 1..n |-> "shared"]}} :
         n \in 1..MaxCustomers}

BasketFiles ==
  UNION {{FileOf(n, RequiredCols \cup UnnamedCols, basket, [c \in 1..n |-> "own"]) :
            basket \in {b \in [1..n -> Baskets] :
                          \A c \in 1..n : b[c] \in BasketChoice(c)}} :
         n \in 1..MaxCustomers}

\* a file of two customers with one Date cell replaced by a bad text
BadDateFiles ==
  LET good == FileOf(2, RequiredCols \cup UnnamedCols,
                     [c \in 1..2 |-> IF c = 1 THEN "two_items" ELSE "one"],
                     [c \in 1..2 |-> "own"])
  IN {DataFrame(good.cols, "object",
                [good.rows EXCEPT ![i] = RawRow(@.Member_number, @.item, bad)]) :
        i \in DOMAIN good.rows, bad \in BadDateTexts}

\* one customer buying on the 15th of a month and of the month after it
MonthsOfYear == 1..12

SeasonFiles ==
  {DataFrame(RequiredCols, "object",
             <<RawRow(1, "milk", [dd |-> 15, mm |-> (m % 12) + 1, yyyy |-> BaseYear]),
               RawRow(1, "bread", [dd |-> 15, mm |-> m, yyyy |-> BaseYear])>>) :
     m \in MonthsOfYear}

InputFiles == RecencyFiles \cup BasketFiles \cup BadDateFiles \cup SeasonFiles

(***************************************************************************)
(* The processor: DataProcessor(file_path), then any sequence of calls.    *)
(***************************************************************************)
\* a system whose components have not been initialized
SystemNew ==
  /\ components = FALSE
  /\ pc = "idle"
  /\ processed_data = None
  /\ rfm_analysis = None
  /\ predictor = None
  /\ recommendation_engine = None
  /\ campaign_manager = None
  /\ predictions = None
  /\ campaign_results = None
  /\ outcome = Returned("__init__", None)
  /\ dashboard = None
  /\ network = <<>>
  /\ args = None
  /\ stage = "none"
  /\ saved = {}

Init ==
  /\ file \in InputFiles \cup {NoFile}
  /\ df = None
  /\ cleaned_df = None
  /\ ret = Returned("__init__", None)
  /\ config = [configured |-> FALSE]
  /\ SystemNew

Next ==
  \/ load_data /\ UNCHANGED system
  \/ clean_data /\ UNCHANGED system
  \/ get_data_summary /\ UNCHANGED system
  \/ create_features /\ UNCHANGED system
  \/ get_customer_segments /\ UNCHANGED system

Spec == Init /\ [][Next]_vars

(***************************************************************************)
(* The predictor and the recommendation engine of src/models/predictor.py, *)
(* as spec.md 4.3, 4.4 and 6 describe them.  The predicted days and their  *)
(* confidences are not modelled.                                           *)
(***************************************************************************)
UntrainedModelError == "UntrainedModelError"
InsufficientDataError == "InsufficientDataError"

\* a predictor that has not been trained has no best model
CustomerBehaviorPredictor ==
  [kind |-> "CustomerBehaviorPredictor", best_model |-> None]

EnsembleTreeModel == [kind |-> "Model", name |-> "ensemble_tree"]

prepare_features(t) ==
  [X |-> [i \in DOMAIN t.rows |->
            [Member_number |-> t.rows[i].Member_number, item |-> t.rows[i].item]],
   y |-> [i \in DOMAIN t.rows |-> t.rows[i].day_of_month]]

\* training fails on empty input; else the best model is recorded
train_models(X, y) ==
  IF Len(X) = 0
    THEN [raised |-> InsufficientDataError, predictor |-> CustomerBehaviorPredictor]
    ELSE [raised |-> NoError,
          predictor |-> [kind |-> "CustomerBehaviorPredictor",
                         best_model |-> EnsembleTreeModel]]

NameOf(c) == "Customer " \o ToString(c)
EmailOf(c) == "customer" \o ToString(c) \o "@example.com"

\* one record per customer of the table, customer numbers ascending
CustomerRecords(t) ==
  LET keys == SortedSeq(Members(t.rows))
  IN [k \in DOMAIN keys |->
        [Member_number |-> keys[k],
         purchase_count |-> Len(RowsOf(t.rows, keys[k])),
         name |-> NameOf(keys[k]),
         email |-> EmailOf(keys[k])]]

\* prediction is refused before training
get_customer_recommendations(p, t) ==
  IF p.best_model = None
    THEN Raised("get_customer_recommendations", UntrainedModelError)
    ELSE Returned("get_customer_recommendations",
                  [kind |-> "Predictions",
                   model_performance |-> [best_model |-> p.best_model.name],
                   customer_segments |-> CustomerRecords(t)])

\* the number of items a recommendation list holds at most
TopN == 5

ProductRecommendationEngine ==
  [kind |-> "ProductRecommendationEngine", history |-> <<>>, matrix |-> <<>>]

\* the items each customer bought, and for every two different items the
\* number of customers who bought both
build_recommendation_matrix(t) ==
  LET known == Items(t.rows)
      bought(c) == Items(RowsOf(t.rows, c))
  IN [kind |-> "ProductRecommendationEngine",
      history |-> [c \in Members(t.rows) |-> bought(c)],
      matrix |-> [p \in known \X known |->
                    IF p[1] = p[2] THEN 0
                    ELSE Cardinality({c \in Members(t.rows) :
                                        {p[1], p[2]} \subseteq bought(c)})]]

KnownItems(engine) == {p[1] : p \in DOMAIN engine.matrix}

\* the sum of the affinity counts of an item to the items a customer bought
Score(engine, c, it) ==
  SumOver(engine.history[c],
          [p \in engine.history[c] |-> engine.matrix[<<it, p>>]])

\* the n first of a set of items by item alone
RECURSIVE FirstItems(_, _, _)
FirstItems(cands, score, n) ==
  IF cands = {} \/ n = 0 THEN <<>>
  ELSE LET best == CHOOSE x \in cands : \A z \in cands : x <= z
       IN <<best>> \o FirstItems(cands \ {best}, score, n - 1)

\* the n best of a set of items: score descending, then item ascending
RECURSIVE TopItems(_, _, _)
TopItems(cands, score, n) ==
  IF cands = {} \/ n = 0 THEN <<>>
  ELSE LET best == CHOOSE x \in cands :
                     \A z \in cands : \/ score[x] > score[z]
                                      \/ score[x] = score[z] /\ x <= z
       IN <<best>> \o TopItems(cands \ {best}, score, n - 1)

\* the items that share no purchase history with the customer's are no
\* candidates; a customer without history gets the empty list
get_product_recommendations(engine, c) ==
  IF c \notin DOMAIN engine.history THEN <<>>
  ELSE LET new == KnownItems(engine) \ engine.history[c]
           score == [it \in new |-> Score(engine, c, it)]
       IN TopItems({it \in new : score[it] > 0}, score, TopN)

(***************************************************************************)
(* EmailCampaignManager (src/src/marketing/email_campaigns.py).  The text  *)
(* of the messages and the timestamps are not modelled.  smtp says for     *)
(* which recipients the SMTP session fails.                                *)
(***************************************************************************)
EmailCampaignManager ==
  [kind |-> "EmailCampaignManager",
   sent_emails |-> <<>>,
   email_stats |-> [total_sent |-> 0, discounts_sent |-> 0,
                    vouchers_sent |-> 0, recommendations_sent |-> 0]]

HighValueDiscount == 20
RegularDiscount == 5
VoucherAmount == 200

\* the calls send_email makes on an SMTP session, in order
SmtpCalls(use_tls) ==
  <<"SMTP">> \o (IF use_tls THEN <<"starttls">> ELSE <<>>)
    \o <<"login", "sendmail", "quit">>

\* the calls up to and with the first that raises
RECURSIVE UpToFault(_, _)
UpToFault(calls, fault) ==
  IF calls = <<>> THEN <<>>
  ELSE IF Head(calls) = fault THEN <<[call |-> fault, ok |-> FALSE]>>
  ELSE <<[call |-> Head(calls), ok |-> TRUE]>> \o UpToFault(Tail(calls), fault)

\* what the runtime does with the session object that send_email drops
\* without quit: a reference-counting runtime closes its socket as the
\* frame goes, another leaves it to a later collection
Finalized(session, smtp) ==
  IF /\ smtp.reclaimed
     /\ session # <<>>
     /\ session[1].ok
     /\ ~session[Len(session)].ok
    THEN Append(session, [call |-> "finalize", ok |-> TRUE])
    ELSE session

\* a send_email that opens its session without looking at the credentials
SmtpSessionUnchecked(recipient_email, dry, smtp) ==
  IF dry THEN <<>>
  ELSE Finalized(UpToFault(SmtpCalls(smtp.use_tls),
                           IF recipient_email \in smtp.down
                             THEN smtp.fault ELSE "none"),
                 smtp)

\* the SMTP session of one send_email, as the calls made on it; smtp holds
\* the mail settings (configured, use_tls) and the server's behaviour: the
\* recipients whose session fails (down) and the call that fails (fault)
SmtpSession(recipient_email, dry, smtp) ==
  IF dry THEN <<>>
  ELSE IF ~smtp.configured THEN <<>>
  ELSE Finalized(UpToFault(SmtpCalls(smtp.use_tls),
                           IF recipient_email \in smtp.down
                             THEN smtp.fault ELSE "none"),
                 smtp)

\* TRUE when the mail counts as sent
send_email(recipient_email, dry, smtp) ==
  LET session == SmtpSession(recipient_email, dry, smtp)
  IN \A k \in DOMAIN session : session[k].ok

\* a record of a sent mail that leaves total_sent as it is
SentUncounted(mgr, counter, email) ==
  [mgr EXCEPT !.sent_emails = Append(@, email),
              !.email_stats = [@ EXCEPT ![counter] = @ + 1]]

Sent(mgr, counter, email) ==
  [mgr EXCEPT !.sent_emails = Append(@, email),
              !.email_stats = [@ EXCEPT ![counter] = @ + 1,
                                        !.total_sent = @ + 1]]

HasContact(customer) == {"name", "email"} \subseteq DOMAIN customer

UnboundLocalError ==
  "UnboundLocalError: local variable 'customer_email' referenced before assignment"

\* the state of a campaign loop: the manager, the statistics counted so far,
\* whether customer_email has been assigned, and the exception that left
\* the loop
Loop(mgr, stats) ==
  [mgr |-> mgr, stats |-> stats, bound |-> FALSE, raised |-> NoError,
   net |-> <<>>]

\* the loop state after the session of one more send_email
Mailing(acc, recipient_email, dry, smtp) ==
  [acc EXCEPT !.bound = TRUE,
              !.net = Append(@, SmtpSession(recipient_email, dry, smtp))]

\* the except clause formats customer_email into its log line
Handled(acc, handled) ==
  IF acc.bound THEN handled ELSE [acc EXCEPT !.raised = UnboundLocalError]

\* one pass of the loop of create_discount_campaign
DiscountStep(acc, customer, dry, smtp) ==
  IF ~HasContact(customer)
    THEN Handled(acc, [acc EXCEPT !.stats.failed = @ + 1])
    ELSE LET high == IF "total_purchases" \in DOMAIN customer
                       THEN customer.total_purchases > 10 ELSE FALSE
             percent == IF high THEN HighValueDiscount ELSE RegularDiscount
             mailing == Mailing(acc, customer.email, dry, smtp)
             counted == IF high
                          THEN [mailing EXCEPT !.stats.high_value = @ + 1]
                          ELSE [mailing EXCEPT !.stats.regular = @ + 1]
         IN IF send_email(customer.email, dry, smtp)
              THEN [counted EXCEPT !.mgr =
                      Sent(@, "discounts_sent",
                           [customer_email |-> customer.email,
                            campaign_type |-> "discount",
                            discount_percent |-> percent])]
              ELSE counted

RECURSIVE DiscountLoop(_, _, _, _)
DiscountLoop(acc, customers, dry, smtp) ==
  IF customers = <<>> \/ acc.raised # NoError THEN acc
  ELSE DiscountLoop(DiscountStep(acc, Head(customers), dry, smtp),
                    Tail(customers), dry, smtp)

create_discount_campaign(mgr, customers, dry, smtp) ==
  DiscountLoop(Loop(mgr, [high_value |-> 0, regular |-> 0, failed |-> 0]),
               customers, dry, smtp)

VoucherStep(acc, customer, dry, smtp) ==
  IF ~HasContact(customer) THEN Handled(acc, acc)
  ELSE IF send_email(customer.email, dry, smtp)
    THEN [Mailing(acc, customer.email, dry, smtp) EXCEPT
            !.mgr = Sent(@, "vouchers_sent",
                         [customer_email |-> customer.email,
                          campaign_type |-> "voucher",
                          voucher_amount |-> VoucherAmount]),
            !.stats = @ + 1]
    ELSE Mailing(acc, customer.email, dry, smtp)

RECURSIVE VoucherLoop(_, _, _, _)
VoucherLoop(acc, customers, dry, smtp) ==
  IF customers = <<>> \/ acc.raised # NoError THEN acc
  ELSE VoucherLoop(VoucherStep(acc, Head(customers), dry, smtp),
                   Tail(customers), dry, smtp)

create_voucher_campaign(mgr, customers, dry, smtp) ==
  VoucherLoop(Loop(mgr, 0), customers, dry, smtp)

\* a loop that skips no customer
SkipsNoCustomer(recommended_products) == FALSE

\* a list that is empty gets no mail
SkipsCustomer(recommended_products) == recommended_products = <<>>

RecommendationStep(acc, customer, dry, smtp) ==
  IF ~HasContact(customer) THEN Handled(acc, acc)
  ELSE IF "recommendations" \notin DOMAIN customer THEN [acc EXCEPT !.bound = TRUE]
  ELSE IF SkipsCustomer(customer.recommendations) THEN [acc EXCEPT !.bound = TRUE]
  ELSE IF send_email(customer.email, dry, smtp)
    THEN [Mailing(acc, customer.email, dry, smtp) EXCEPT
            !.mgr = Sent(@, "recommendations_sent",
                         [customer_email |-> customer.email,
                          campaign_type |-> "recommendations",
                          products |-> customer.recommendations]),
            !.stats = @ + 1]
    ELSE Mailing(acc, customer.email, dry, smtp)

RECURSIVE RecommendationLoop(_, _, _, _)
RecommendationLoop(acc, customers, dry, smtp) ==
  IF customers = <<>> \/ acc.raised # NoError THEN acc
  ELSE RecommendationLoop(RecommendationStep(acc, Head(customers), dry, smtp),
                          Tail(customers), dry, smtp)

create_recommendation_campaign(mgr, customers, dry, smtp) ==
  RecommendationLoop(Loop(mgr, 0), customers, dry, smtp)

LastOf(s, n) == IF Len(s) <= n THEN s ELSE SubSeq(s, Len(s) - n + 1, Len(s))
FirstOf(s, n) == IF Len(s) <= n THEN s ELSE SubSeq(s, 1, n)

OfType(mgr, type) ==
  Len(SelectSeq(mgr.sent_emails, LAMBDA e : e.campaign_type = type))

get_campaign_report(mgr) ==
  [summary |-> mgr.email_stats,
   recent_emails |-> LastOf(mgr.sent_emails, 10),
   campaigns_by_type |-> [discount |-> OfType(mgr, "discount"),
                          voucher |-> OfType(mgr, "voucher"),
                          recommendations |-> OfType(mgr, "recommendations")]]

(***************************************************************************)
(* CustomerBehaviorAnalysisSystem (src/main.py).  pc is the call the       *)
(* running method makes next, "idle" between methods; outcome is the outcome   *)
(* of the last method or direct component call.                            *)
(***************************************************************************)
AttributeErrorNone == "AttributeError: 'NoneType' object has no attribute"
StateErrorNotProcessed == "ValueError: Data not processed. Run data analysis first."
StateErrorNoPredictions ==
  "ValueError: Predictions not available. Run predictive modeling first."

\* the dashboard holds the table it draws from
CustomerAnalyticsDashboard(table) ==
  [kind |-> "CustomerAnalyticsDashboard", df |-> table]

initialize_components ==
  /\ pc = "idle"
  /\ ~components
  /\ components' = TRUE
  /\ df' = None
  /\ cleaned_df' = None
  /\ ret' = Returned("__init__", None)
  /\ predictor' = CustomerBehaviorPredictor
  /\ recommendation_engine' = ProductRecommendationEngine
  /\ campaign_manager' = EmailCampaignManager
  /\ outcome' = Returned("initialize_components", None)
  /\ UNCHANGED <<file, config, pc, processed_data, rfm_analysis, predictions,
                 campaign_results>>

\* what run_data_analysis hands back or raises after a call of the processor
AnalysisOutcome(r, last) ==
  IF r.raised # NoError THEN Raised("run_data_analysis", r.raised)
  ELSE IF last THEN Returned("run_data_analysis", Summary(cleaned_df))
  ELSE Running("run_data_analysis")

AnalysisStep(r, next) == IF r.raised = NoError THEN next ELSE "idle"

\* run_data_analysis up to the return of load_data
run_data_analysis ==
  /\ pc = "idle"
  /\ IF ~components
       THEN /\ outcome' = Raised("run_data_analysis", AttributeErrorNone)
            /\ UNCHANGED <<file, df, cleaned_df, ret, pc>>
       ELSE /\ load_data
            /\ pc' = AnalysisStep(ret', "clean_data")
            /\ outcome' = AnalysisOutcome(ret', FALSE)
  /\ UNCHANGED <<config, components, processed_data, rfm_analysis, predictor,
                 recommendation_engine, campaign_manager, predictions,
                 campaign_results>>

analysis_clean_data ==
  /\ pc = "clean_data"
  /\ clean_data
  /\ processed_data' = IF ret'.raised = NoError THEN ret'.value ELSE processed_data
  /\ pc' = AnalysisStep(ret', "create_features")
  /\ outcome' = AnalysisOutcome(ret', FALSE)
  /\ UNCHANGED <<config, components, rfm_analysis, predictor,
                 recommendation_engine, campaign_manager, predictions,
                 campaign_results>>

analysis_create_features ==
  /\ pc = "create_features"
  /\ create_features
  /\ processed_data' = IF ret'.raised = NoError THEN ret'.value ELSE processed_data
  /\ pc' = AnalysisStep(ret', "get_data_summary")
  /\ outcome' = AnalysisOutcome(ret', FALSE)
  /\ UNCHANGED <<config, components, rfm_analysis, predictor,
                 recommendation_engine, campaign_manager, predictions,
                 campaign_results>>

analysis_get_data_summary ==
  /\ pc = "get_data_summary"
  /\ get_data_summary
  /\ pc' = AnalysisStep(ret', "get_customer_segments")
  /\ outcome' = AnalysisOutcome(ret', FALSE)
  /\ UNCHANGED <<config, components, processed_data, rfm_analysis, predictor,
                 recommendation_engine, campaign_manager, predictions,
                 campaign_results>>

analysis_get_customer_segments ==
  /\ pc = "get_customer_segments"
  /\ get_customer_segments
  /\ rfm_analysis' = IF ret'.raised = NoError THEN ret'.value ELSE rfm_analysis
  /\ dashboard' = IF ret'.raised = NoError
                    THEN CustomerAnalyticsDashboard(processed_data)
                    ELSE dashboard
  /\ pc' = "idle"
  /\ outcome' = AnalysisOutcome(ret', TRUE)
  /\ UNCHANGED <<config, components, processed_data, predictor,
                 recommendation_engine, campaign_manager, predictions,
                 campaign_results>>

\* a run that asks for the predictions before it trains
PredictFirstSteps ==
  <<"get_customer_recommendations", "train_models",
    "build_recommendation_matrix", "product_recommendations">>

\* the calls of run_predictive_modeling after prepare_features, in order
ModelingSteps ==
  <<"train_models", "get_customer_recommendations",
    "build_recommendation_matrix", "product_recommendations">>

StepAfter(step) ==
  LET k == CHOOSE i \in DOMAIN ModelingSteps : ModelingSteps[i] = step
  IN IF k = Len(ModelingSteps) THEN "idle" ELSE ModelingSteps[k + 1]

model_results == [best_model |-> predictor.best_model]

\* where a modeling step leaves the method: at its next call, at its return,
\* or at the exception that ends it
ModelingGoesOn(raised) ==
  /\ pc' = IF raised = NoError THEN StepAfter(pc) ELSE "idle"
  /\ outcome' = IF raised # NoError THEN Raised("run_predictive_modeling", raised)
            ELSE IF StepAfter(pc) = "idle"
              THEN Returned("run_predictive_modeling", model_results')
            ELSE Running("run_predictive_modeling")

\* run_predictive_modeling up to the return of prepare_features
run_predictive_modeling ==
  /\ pc = "idle"
  /\ IF processed_data = None
       THEN /\ outcome' = Raised("run_predictive_modeling", StateErrorNotProcessed)
            /\ pc' = pc
       ELSE /\ outcome' = Running("run_predictive_modeling")
            /\ pc' = ModelingSteps[1]
  /\ UNCHANGED <<file, df, cleaned_df, ret, config, components, processed_data,
                 rfm_analysis, predictor, recommendation_engine,
                 campaign_manager, predictions, campaign_results>>

modeling_train_models ==
  /\ pc = "train_models"
  /\ LET features == prepare_features(processed_data)
         trained == train_models(features.X, features.y)
     IN /\ predictor' = IF trained.raised = NoError THEN trained.predictor
                        ELSE predictor
        /\ ModelingGoesOn(trained.raised)
  /\ UNCHANGED <<file, df, cleaned_df, ret, config, components, processed_data,
                 rfm_analysis, recommendation_engine, campaign_manager,
                 predictions, campaign_results>>

modeling_get_customer_recommendations ==
  /\ pc = "get_customer_recommendations"
  /\ LET r == get_customer_recommendations(predictor, processed_data)
     IN /\ predictions' = IF r.raised = NoError THEN r.value ELSE predictions
        /\ predictor' = predictor
        /\ ModelingGoesOn(r.raised)
  /\ UNCHANGED <<file, df, cleaned_df, ret, config, components, processed_data,
                 rfm_analysis, recommendation_engine, campaign_manager,
                 campaign_results>>

modeling_build_recommendation_matrix ==
  /\ pc = "build_recommendation_matrix"
  /\ recommendation_engine' = build_recommendation_matrix(processed_data)
  /\ predictor' = predictor
  /\ ModelingGoesOn(NoError)
  /\ UNCHANGED <<file, df, cleaned_df, ret, config, components, processed_data,
                 rfm_analysis, campaign_manager, predictions, campaign_results>>

\* every record takes the list of the first record's customer
WithFirstCustomersRecommendations(preds, engine) ==
  [preds EXCEPT !.customer_segments =
     [k \in DOMAIN preds.customer_segments |->
        [product_recommendations |->
           get_product_recommendations(engine,
                                       preds.customer_segments[1].Member_number)]
        @@ preds.customer_segments[k]]]

\* the loop that adds product_recommendations to every customer record
WithProductRecommendations(preds, engine) ==
  [preds EXCEPT !.customer_segments =
     [k \in DOMAIN preds.customer_segments |->
        [product_recommendations |->
           get_product_recommendations(engine,
                                       preds.customer_segments[k].Member_number)]
        @@ preds.customer_segments[k]]]

modeling_product_recommendations ==
  /\ pc = "product_recommendations"
  /\ predictions' = WithProductRecommendations(predictions, recommendation_engine)
  /\ predictor' = predictor
  /\ ModelingGoesOn(NoError)
  /\ UNCHANGED <<file, df, cleaned_df, ret, config, components, processed_data,
                 rfm_analysis, recommendation_engine, campaign_manager,
                 campaign_results>>

\* customers selected from three purchases on
HighValueFromThree(all_customers) ==
  SelectSeq(all_customers, LAMBDA customer : customer.purchase_count >= 3)

HighValueCustomers(all_customers) ==
  SelectSeq(all_customers, LAMBDA customer : customer.purchase_count > 10)

LowEngagementCustomers(all_customers) ==
  SelectSeq(all_customers, LAMBDA customer : customer.purchase_count <= 3)

HasRecommendations(customer) ==
  IF "product_recommendations" \in DOMAIN customer
    THEN customer.product_recommendations # <<>>
    ELSE FALSE

CustomersWithRecs(segments) ==
  LET kept == SelectSeq(segments, HasRecommendations)
  IN [k \in DOMAIN kept |->
        [name |-> kept[k].name,
         email |-> kept[k].email,
         recommendations |-> kept[k].product_recommendations]]

\* the three campaigns in turn; an exception of one ends the method
Campaigns(mgr, segments, dry, smtp) ==
  LET discount == create_discount_campaign(mgr, HighValueCustomers(segments),
                                           dry, smtp)
      voucher == create_voucher_campaign(
                   discount.mgr, FirstOf(LowEngagementCustomers(segments), 10),
                   dry, smtp)
      recommendation == create_recommendation_campaign(
                          voucher.mgr, FirstOf(CustomersWithRecs(segments), 20),
                          dry, smtp)
  IN IF discount.raised # NoError
       THEN [mgr |-> discount.mgr, raised |-> discount.raised, value |-> None,
             net |-> discount.net]
     ELSE IF voucher.raised # NoError
       THEN [mgr |-> voucher.mgr, raised |-> voucher.raised, value |-> None,
             net |-> discount.net \o voucher.net]
     ELSE IF recommendation.raised # NoError
       THEN [mgr |-> recommendation.mgr, raised |-> recommendation.raised,
             value |-> None,
             net |-> discount.net \o voucher.net \o recommendation.net]
     ELSE [mgr |-> recommendation.mgr, raised |-> NoError,
           value |-> [discount_results |-> discount.stats,
                      voucher_results |-> voucher.stats,
                      recommendation_results |-> recommendation.stats],
           net |-> discount.net \o voucher.net \o recommendation.net]

Emails(segments) == {segments[k].email : k \in DOMAIN segments}

\* the mail settings and a server that fails no session
Smtp(configured) ==
  [configured |-> configured, use_tls |-> TRUE, down |-> {},
   fault |-> "none", reclaimed |-> FALSE]

\* the SMTP outcomes a send of a system run can meet: none matter to a dry
\* run; else the sessions fail, at sendmail, for no recipient, for one, or
\* for all
SmtpOutcomes(dry, emails) ==
  IF dry \/ ~config.configured
    THEN {Smtp(config.configured)}
    ELSE {[Smtp(TRUE) EXCEPT !.down = d, !.fault = "sendmail"] :
            d \in {{}, emails} \cup {{e} : e \in emails}}

\* the number of mails sent before a further campaign call is modelled
CanSendMore == campaign_manager.email_stats.total_sent <= MaxSentBefore

marketing_campaigns(dry) ==
  /\ pc = "idle"
  /\ components => CanSendMore
  /\ IF predictions = None
       THEN /\ outcome' = Raised("run_marketing_campaigns",
                                 StateErrorNoPredictions)
            /\ network' = <<>>
            /\ UNCHANGED <<campaign_manager, campaign_results>>
       ELSE \E smtp \in SmtpOutcomes(dry, Emails(predictions.customer_segments)) :
              LET done == Campaigns(campaign_manager,
                                    predictions.customer_segments, dry, smtp)
              IN /\ campaign_manager' = done.mgr
                 /\ campaign_results' = IF done.raised = NoError
                                          THEN get_campaign_report(done.mgr)
                                          ELSE campaign_results
                 /\ outcome' = [op |-> "run_marketing_campaigns",
                                raised |-> done.raised, value |-> done.value]
                 /\ network' = done.net
  /\ UNCHANGED <<file, df, cleaned_df, ret, config, components, pc,
                 processed_data, rfm_analysis, predictor, recommendation_engine,
                 predictions>>

run_marketing_campaigns == \E dry \in BOOLEAN : marketing_campaigns(dry)

(***************************************************************************)
(* Calls a holder of the system makes on its components directly.          *)
(***************************************************************************)
predictor_get_customer_recommendations ==
  /\ pc = "idle"
  /\ components
  /\ processed_data # None
  /\ outcome' = get_customer_recommendations(predictor, processed_data)
  /\ UNCHANGED <<file, df, cleaned_df, ret, config, components, pc,
                 processed_data, rfm_analysis, predictor, recommendation_engine,
                 campaign_manager, predictions, campaign_results>>

\* a customer number that no input file holds
UnknownCustomer == MaxSysCustomers + 1

engine_get_product_recommendations ==
  /\ pc = "idle"
  /\ components
  /\ \E customer_id \in {UnknownCustomer} :
       outcome' = Returned("get_product_recommendations",
                       [customer_id |-> customer_id,
                        items |-> get_product_recommendations(
                                    recommendation_engine, customer_id)])
  /\ UNCHANGED <<file, df, cleaned_df, ret, config, components, pc,
                 processed_data, rfm_analysis, predictor, recommendation_engine,
                 campaign_manager, predictions, campaign_results>>

\* every customer record handed over, whatever its list
AllWithRecs(segments) ==
  [k \in DOMAIN segments |->
     [name |-> segments[k].name,
      email |-> segments[k].email,
      recommendations |-> IF "product_recommendations" \in DOMAIN segments[k]
                            THEN segments[k].product_recommendations
                            ELSE <<>>]]

manager_create_recommendation_campaign ==
  /\ pc = "idle"
  /\ components
  /\ predictions # None
  /\ CanSendMore
  /\ LET done == create_recommendation_campaign(
                   campaign_manager, AllWithRecs(predictions.customer_segments),
                   TRUE, Smtp(config.configured))
     IN /\ campaign_manager' = done.mgr
        /\ outcome' = [op |-> "create_recommendation_campaign",
                   raised |-> done.raised, value |-> done.stats]
        /\ network' = done.net
  /\ UNCHANGED <<file, df, cleaned_df, ret, config, components, pc,
                 processed_data, rfm_analysis, predictor, recommendation_engine,
                 predictions, campaign_results>>

(***************************************************************************)
(* The input files of the system runs: every customer buys a basket, the   *)
(* last purchase on a day of the customer's own.  Items are numbered.      *)
(***************************************************************************)
SysBaskets == {"loner", "single", "pair", "three", "four", "ten", "heavy"}

BasketItems(basket) ==
  IF basket = "loner" THEN <<9>>
  ELSE IF basket = "single" THEN <<1>>
  ELSE IF basket = "pair" THEN <<1, 2>>
  ELSE IF basket = "three" THEN <<1, 8, 1>>
  ELSE IF basket = "four" THEN <<2, 3, 4, 2>>
  ELSE IF basket = "ten" THEN <<1, 2, 3, 4, 5, 1, 2, 3, 4, 5>>
  ELSE <<1, 2, 3, 4, 5, 6, 7, 8, 1, 2, 3>>

\* the baskets a customer chooses from go by the customer's number
SysBasketChoice(c) ==
  IF c = 1 THEN {"loner", "pair", "four"}
  ELSE IF c = 2 THEN {"single", "three", "heavy"}
  ELSE IF c = 3 THEN {"ten", "heavy"}
  ELSE {"pair"}

SysRows(n, c, basket) ==
  LET its == BasketItems(basket)
  IN [i \in DOMAIN its |->
        RawRow(c, its[i],
               IF i = Len(its) THEN DateText(n + 1 - c) ELSE EarlyDateText)]

SysFiles ==
  UNION {{DataFrame(RequiredCols \cup UnnamedCols, "object",
                    Concat([c \in 1..n |-> SysRows(n, c, basket[c])])) :
            basket \in {b \in [1..n -> SysBaskets] :
                          \A c \in 1..n : b[c] \in SysBasketChoice(c)}} :
         n \in 1..MaxSysCustomers}

Configs == {[configured |-> b] : b \in BOOLEAN}

SysInit ==
  /\ file \in SysFiles \cup BadDateFiles
  /\ df = None
  /\ cleaned_df = None
  /\ ret = Returned("__init__", None)
  /\ config \in Configs
  /\ SystemNew

\* the calls that send no mail leave the network as it is
Quiet(call) == call /\ UNCHANGED network

\* the calls made outside a complete run, which write no file
Apart(call) == call /\ UNCHANGED <<args, stage, saved>>

SysNext ==
  \/ Apart(Quiet(initialize_components /\ UNCHANGED dashboard))
  \/ Apart(Quiet(run_data_analysis /\ UNCHANGED dashboard))
  \/ Apart(Quiet(analysis_clean_data /\ UNCHANGED dashboard))
  \/ Apart(Quiet(analysis_create_features /\ UNCHANGED dashboard))
  \/ Apart(Quiet(analysis_get_data_summary /\ UNCHANGED dashboard))
  \/ Apart(Quiet(analysis_get_customer_segments))
  \/ Apart(Quiet(run_predictive_modeling /\ UNCHANGED dashboard))
  \/ Apart(Quiet(modeling_train_models /\ UNCHANGED dashboard))
  \/ Apart(Quiet(modeling_get_customer_recommendations /\ UNCHANGED dashboard))
  \/ Apart(Quiet(modeling_build_recommendation_matrix /\ UNCHANGED dashboard))
  \/ Apart(Quiet(modeling_product_recommendations /\ UNCHANGED dashboard))
  \/ Apart(run_marketing_campaigns /\ UNCHANGED dashboard)
  \/ Apart(Quiet(predictor_get_customer_recommendations /\ UNCHANGED dashboard))
  \/ Apart(Quiet(engine_get_product_recommendations /\ UNCHANGED dashboard))
  \/ Apart(manager_create_recommendation_campaign /\ UNCHANGED dashboard)

SpecSys == SysInit /\ [][SysNext]_vars

(***************************************************************************)
(* run_complete_analysis: the six stages in turn, on a new system.  stage  *)
(* is the stage the run is at, "returned" once the last stage came back,   *)
(* "raised" once a stage raised and the run re-raised its exception.       *)
(***************************************************************************)
StateErrorNoDashboard == "ValueError: Dashboard not initialized. Run data analysis first."
IOError == "OSError: cannot write file"

\* the files the dashboard writes
VisualizationFiles ==
  {"customer_overview.png", "customer_segmentation.png",
   "interactive_dashboard.html", "executive_summary.md"}
    \cup (IF predictions # None THEN {"predictive_insights.png"} ELSE {})
    \cup (IF campaign_results # None THEN {"marketing_performance.png"} ELSE {})

\* the files save_results writes
ResultFiles ==
  (IF processed_data # None THEN {"processed_customer_data.csv"} ELSE {})
    \cup (IF rfm_analysis # None THEN {"customer_segmentation_rfm.csv"} ELSE {})
    \cup (IF predictions # None THEN {"customer_predictions.csv"} ELSE {})
    \cup (IF predictor # None THEN {"customer_behavior_model.joblib"} ELSE {})
    \cup (IF campaign_manager # None THEN {"campaign_results.csv"} ELSE {})

\* the files are written, or the first write fails
generate_visualizations ==
  /\ pc = "idle"
  /\ IF dashboard = None
       THEN /\ outcome' = Raised("generate_visualizations", StateErrorNoDashboard)
            /\ UNCHANGED saved
       ELSE \E written \in BOOLEAN :
              IF written
                THEN /\ saved' = saved \cup VisualizationFiles
                     /\ outcome' = Returned("generate_visualizations",
                                            [dashboard_file |->
                                               "interactive_dashboard.html"])
                ELSE /\ outcome' = Raised("generate_visualizations", IOError)
                     /\ UNCHANGED saved
  /\ UNCHANGED <<file, df, cleaned_df, ret, config, components, pc,
                 processed_data, rfm_analysis, predictor, recommendation_engine,
                 campaign_manager, predictions, campaign_results, dashboard,
                 network>>

save_results ==
  /\ pc = "idle"
  /\ \E written \in BOOLEAN :
       IF written
         THEN /\ saved' = saved \cup ResultFiles
              /\ outcome' = Returned("save_results", None)
         ELSE /\ outcome' = Raised("save_results", IOError)
              /\ UNCHANGED saved
  /\ UNCHANGED <<file, df, cleaned_df, ret, config, components, pc,
                 processed_data, rfm_analysis, predictor, recommendation_engine,
                 campaign_manager, predictions, campaign_results, dashboard,
                 network>>

\* the stages in the order of the calls of run_complete_analysis
Stages ==
  <<"initialize_components", "run_data_analysis", "run_predictive_modeling",
    "run_marketing_campaigns", "generate_visualizations", "save_results">>

StageAfter(name) ==
  LET k == CHOOSE i \in DOMAIN Stages : Stages[i] = name
  IN IF k = Len(Stages) THEN "returned" ELSE Stages[k + 1]

\* a run that goes on to the next stage whatever the last one did
GoesOnAnyway(name, running, raised) ==
  IF running THEN name ELSE StageAfter(name)

\* where the run is after a step of a stage: in the stage while its method
\* runs, at the next stage when it came back, out of the run when it raised
GoesOn(name, running, raised) ==
  IF running THEN name
  ELSE IF raised THEN "raised"
  ELSE StageAfter(name)

\* a step of the stage of that name
Stage(name, step) ==
  /\ stage = name
  /\ step
  /\ stage' = GoesOn(name, pc' # "idle", outcome'.raised # NoError)
  /\ UNCHANGED args

run_complete_analysis ==
  /\ stage = "none"
  /\ \E dry \in BOOLEAN : args' = [dry_run |-> dry]
  /\ stage' = Stages[1]
  /\ outcome' = Running("run_complete_analysis")
  /\ UNCHANGED <<file, df, cleaned_df, ret, config, components, pc,
                 processed_data, rfm_analysis, predictor, recommendation_engine,
                 campaign_manager, predictions, campaign_results, dashboard,
                 network, saved>>

Unsaved(call) == call /\ UNCHANGED saved

RunNext ==
  \/ run_complete_analysis
  \/ Stage("initialize_components",
           Unsaved(Quiet(initialize_components /\ UNCHANGED dashboard)))
  \/ Stage("run_data_analysis",
           Unsaved(Quiet(run_data_analysis /\ UNCHANGED dashboard)))
  \/ Stage("run_data_analysis",
           Unsaved(Quiet(analysis_clean_data /\ UNCHANGED dashboard)))
  \/ Stage("run_data_analysis",
           Unsaved(Quiet(analysis_create_features /\ UNCHANGED dashboard)))
  \/ Stage("run_data_analysis",
           Unsaved(Quiet(analysis_get_data_summary /\ UNCHANGED dashboard)))
  \/ Stage("run_data_analysis", Unsaved(Quiet(analysis_get_customer_segments)))
  \/ Stage("run_predictive_modeling",
           Unsaved(Quiet(run_predictive_modeling /\ UNCHANGED dashboard)))
  \/ Stage("run_predictive_modeling",
           Unsaved(Quiet(modeling_train_models /\ UNCHANGED dashboard)))
  \/ Stage("run_predictive_modeling",
           Unsaved(Quiet(modeling_get_customer_recommendations
                           /\ UNCHANGED dashboard)))
  \/ Stage("run_predictive_modeling",
           Unsaved(Quiet(modeling_build_recommendation_matrix
                           /\ UNCHANGED dashboard)))
  \/ Stage("run_predictive_modeling",
           Unsaved(Quiet(modeling_product_recommendations
                           /\ UNCHANGED dashboard)))
  \/ Stage("run_marketing_campaigns",
           Unsaved(marketing_campaigns(args.dry_run) /\ UNCHANGED dashboard))
  \/ Stage("generate_visualizations", generate_visualizations)
  \/ Stage("save_results", save_results)

SpecRun == SysInit /\ [][RunNext]_vars

(***************************************************************************)
(* segment_customers applied to each of the codes that three scores in     *)
(* 1..5 make.                                                              *)
(***************************************************************************)
Scores == 1..5

RfmCodes == {RfmScore(r, f, m) : r \in Scores, f \in Scores, m \in Scores}

CodesInit ==
  /\ file = NoFile
  /\ df = None
  /\ cleaned_df = None
  /\ ret \in {Returned("RFM_Score", code) : code \in RfmCodes}
  /\ config = [configured |-> FALSE]
  /\ SystemNew

apply_segment_customers ==
  /\ ret.op = "RFM_Score"
  /\ ret' = Returned("segment_customers",
                     [RFM_Score |-> ret.value,
                      Segment |-> segment_customers(ret.value)])
  /\ UNCHANGED <<file, df, cleaned_df>>
  /\ UNCHANGED system

CodesNext == apply_segment_customers

SpecCodes == CodesInit /\ [][CodesNext]_vars

(***************************************************************************)
(* The EmailCampaignManager alone: send_email, the three campaigns and the *)
(* report, called in any order on one manager.                             *)
(***************************************************************************)
\* the largest number of customers in a table handed to a campaign
MaxMailCustomers == 2
\* a campaign is called when its customers and the mails sent before are
\* at most this many together
MaxMailSent == 3

\* the mail settings of config.email: no credentials, or credentials with
\* TLS asked for or not
MailConfigs ==
  {[configured |-> FALSE, use_tls |-> TRUE]}
    \cup {[configured |-> TRUE, use_tls |-> t] : t \in BOOLEAN}

\* the calls of a session that a server can fail; a session that breaks at
\* quit is closed by the library
MailFaults == {"SMTP", "starttls", "login", "sendmail"}

\* the columns of the customer tables handed to a campaign
MailColumns ==
  {{"name", "email", "total_purchases"}, {"name", "email", "purchase_count"},
   {"email", "total_purchases"}, {"name", "total_purchases"}}

\* customer 1 buys often, the others seldom
MailCustomer(c) ==
  [name |-> NameOf(c), email |-> EmailOf(c),
   total_purchases |-> IF c = 1 THEN 11 ELSE 2,
   purchase_count |-> IF c = 1 THEN 11 ELSE 2]

Restrict(record, cols) == [col \in cols |-> record[col]]

\* the rows of a customer table, as iterrows yields them
MailTables(columns) ==
  {[c \in 1..n |-> Restrict(MailCustomer(c), cols)] :
     n \in 0..MaxMailCustomers, cols \in columns}

\* the columns of the tables handed to the voucher campaign
VoucherColumns == {{"name", "email"}, {"email"}}

\* the lists handed to create_recommendation_campaign: customer 1 with a
\* product, and a second customer with an empty list, with no email, or
\* with two products
MailRecommendations ==
  LET first == [name |-> NameOf(1), email |-> EmailOf(1), recommendations |-> <<1>>]
  IN {<<>>, <<first>>,
      <<first, [name |-> NameOf(2), email |-> EmailOf(2),
                recommendations |-> <<>>]>>,
      <<first, [name |-> NameOf(2), email |-> EmailOf(2),
                recommendations |-> <<2, 3>>]>>,
      <<[name |-> NameOf(2), recommendations |-> <<2, 3>>], first>>}

\* the servers a campaign meets: one that fails no session, or one that
\* fails the login of the first customer's session
CampaignServers ==
  {[Smtp(config.configured) EXCEPT !.use_tls = config.use_tls],
   [configured |-> config.configured, use_tls |-> config.use_tls,
    down |-> {EmailOf(1)}, fault |-> "login", reclaimed |-> FALSE]}

\* the servers a single send_email meets
SendServers ==
  {[Smtp(config.configured) EXCEPT !.use_tls = config.use_tls]}
    \cup {[configured |-> config.configured, use_tls |-> config.use_tls,
            down |-> {EmailOf(1)}, fault |-> f, reclaimed |-> r] :
             f \in MailFaults, r \in BOOLEAN}

\* no server matters to a call that opens no session
ServersOf(dry, servers) ==
  IF dry \/ ~config.configured
    THEN {[Smtp(config.configured) EXCEPT !.use_tls = config.use_tls]}
    ELSE servers

MailInit ==
  /\ file = NoFile
  /\ df = None
  /\ cleaned_df = None
  /\ ret = Returned("__init__", None)
  /\ config \in MailConfigs
  /\ components = FALSE
  /\ pc = "idle"
  /\ processed_data = None
  /\ rfm_analysis = None
  /\ predictor = None
  /\ recommendation_engine = None
  /\ campaign_manager = EmailCampaignManager
  /\ predictions = None
  /\ campaign_results = None
  /\ outcome = Returned("__init__", None)
  /\ dashboard = None
  /\ network = <<>>
  /\ args = None
  /\ stage = "none"
  /\ saved = {}

\* what a call on the manager alone leaves as it is
MailFrame ==
  UNCHANGED <<file, df, cleaned_df, ret, config, components, pc,
              processed_data, rfm_analysis, predictor, recommendation_engine,
              predictions, campaign_results, dashboard, stage, saved>>

\* the report and a send_email of its own change nothing of the manager,
\* so the campaigns that could follow them are those that can be called in
\* their place
MayCampaign(customers) ==
  /\ outcome.op \notin {"get_campaign_report", "send_email"}
  /\ campaign_manager.email_stats.total_sent + Len(customers) <= MaxMailSent

mail_send_email ==
  /\ outcome.op \notin {"get_campaign_report", "send_email"}
  /\ \E dry \in BOOLEAN :
       \E smtp \in ServersOf(dry, SendServers) :
         /\ args' = [recipient_email |-> EmailOf(1), dry_run |-> dry]
         /\ network' = <<SmtpSession(EmailOf(1), dry, smtp)>>
         /\ outcome' = Returned("send_email", send_email(EmailOf(1), dry, smtp))
  /\ UNCHANGED campaign_manager
  /\ MailFrame

\* the outcome of a campaign: the statistics, or the exception that left it
CampaignOutcome(op, done) ==
  [op |-> op, raised |-> done.raised,
   value |-> IF done.raised = NoError THEN [stats |-> done.stats] ELSE None]

mail_create_discount_campaign ==
  /\ \E customers \in MailTables(MailColumns), dry \in BOOLEAN :
       \E smtp \in ServersOf(dry, CampaignServers) :
         LET done == create_discount_campaign(campaign_manager, customers,
                                              dry, smtp)
         IN /\ MayCampaign(customers)
            /\ args' = [customers |-> customers, dry_run |-> dry]
            /\ campaign_manager' = done.mgr
            /\ network' = done.net
            /\ outcome' = CampaignOutcome("create_discount_campaign", done)
  /\ MailFrame

mail_create_voucher_campaign ==
  /\ \E customers \in MailTables(VoucherColumns), dry \in BOOLEAN :
       \E smtp \in ServersOf(dry, CampaignServers) :
         LET done == create_voucher_campaign(campaign_manager, customers,
                                             dry, smtp)
         IN /\ MayCampaign(customers)
            /\ args' = [customers |-> customers, dry_run |-> dry]
            /\ campaign_manager' = done.mgr
            /\ network' = done.net
            /\ outcome' = CampaignOutcome("create_voucher_campaign", done)
  /\ MailFrame

mail_create_recommendation_campaign ==
  /\ \E customers \in MailRecommendations, dry \in BOOLEAN :
       \E smtp \in ServersOf(dry, CampaignServers) :
         LET done == create_recommendation_campaign(campaign_manager, customers,
                                                    dry, smtp)
         IN /\ MayCampaign(customers)
            /\ args' = [customers |-> customers, dry_run |-> dry]
            /\ campaign_manager' = done.mgr
            /\ network' = done.net
            /\ outcome' = CampaignOutcome("create_recommendation_campaign", done)
  /\ MailFrame

mail_get_campaign_report ==
  /\ outcome.op \notin {"get_campaign_report", "send_email"}
  /\ args' = None
  /\ outcome' = Returned("get_campaign_report",
                         get_campaign_report(campaign_manager))
  /\ UNCHANGED <<campaign_manager, network>>
  /\ MailFrame

MailNext ==
  \/ mail_send_email
  \/ mail_create_discount_campaign
  \/ mail_create_voucher_campaign
  \/ mail_create_recommendation_campaign
  \/ mail_get_campaign_report

SpecMail == MailInit /\ [][MailNext]_vars


(***************************************************************************)
(* Properties of get_customer_segments.                                    *)
(***************************************************************************)
\* the last call was get_customer_segments and it returned its table
Segmented == ret.op = "get_customer_segments" /\ ret.raised = NoError

\* the last call was get_customer_segments, made on a fully cleaned table
SegmentsCalledOnCleaned ==
  /\ ret.op = "get_customer_segments"
  /\ cleaned_df # None
  /\ cleaned_df.date_dtype = "datetime64"

SegmentLabels == {"Champions", "Loyal Customers", "Potential Loyalists",
                  "New Customers", "At Risk", "Cannot Lose Them", "Others"}

ListedCodes == Champions \cup LoyalCustomers \cup PotentialLoyalists
                 \cup NewCustomers \cup AtRisk \cup CannotLoseThem

\* the number of rows of a table whose column col holds v
CountWhere(rows, col, v) == Cardinality({i \in DOMAIN rows : rows[i][col] = v})

\* C1: the segmentation has exactly one row per distinct Member_number of
\* its input, every row carries one Segment label, and the per-segment
\* customer counts add up to the number of distinct customers.
C1_OneRowPerCustomer ==
  Segmented =>
    LET out == ret.value.rows
        customers == Members(cleaned_df.rows)
    IN /\ Len(out) = Cardinality(customers)
       /\ \A c \in customers : CountWhere(out, "Member_number", c) = 1
       /\ \A i \in DOMAIN out : out[i].Segment \in SegmentLabels
       /\ SumOver(SegmentLabels,
                  [l \in SegmentLabels |-> CountWhere(out, "Segment", l)])
            = Cardinality(customers)

\* a segmentation of customers with several purchases into several segments
C1_Witness ==
  /\ Segmented
  /\ Len(cleaned_df.rows) > Len(ret.value.rows)
  /\ \E i, j \in DOMAIN ret.value.rows :
       ret.value.rows[i].Segment # ret.value.rows[j].Segment

\* the sizes of the five buckets of a score column
BucketSizes(rows, col) == [b \in 1..5 |-> CountWhere(rows, col, b)]

Balanced(sizes) ==
  \A a, b \in DOMAIN sizes : sizes[a] - sizes[b] <= 1

\* the Recency column of the last call's input passes its qcut
RecencyBinsExist ==
  Qcut(Column(RfmTable(cleaned_df.rows), "Recency"), RScoreLabels).raised
    = NoError

\* C2: with at least 5 distinct customers, the binning of Frequency and of
\* Monetary never fails, however many customers share a raw value: once
\* the Recency bins exist the call returns, every customer is in one of the
\* five F_Score buckets and in one of the five M_Score buckets, and the
\* sizes of the five buckets differ pairwise by at most 1.
C2_BalancedBuckets ==
  (/\ SegmentsCalledOnCleaned
   /\ Cardinality(Members(cleaned_df.rows)) >= 5
   /\ RecencyBinsExist) =>
    /\ ret.raised = NoError
    /\ \A col \in {"F_Score", "M_Score"} :
         LET sizes == BucketSizes(ret.value.rows, col)
         IN /\ SumOver(1..5, sizes) = Len(ret.value.rows)
            /\ Balanced(sizes)

\* six customers, at least three of them with the same Frequency and at
\* least three with the same Monetary, in buckets of unequal sizes
C2_Witness ==
  /\ Segmented
  /\ Len(ret.value.rows) > 5
  /\ \E v \in 1..2 : CountWhere(ret.value.rows, "Frequency", v) >= 3
  /\ \E v \in 1..2 : CountWhere(ret.value.rows, "Monetary", v) >= 3
  /\ \E v \in 1..2 : CountWhere(ret.value.rows, "Frequency", v) \in 1..2
  /\ \E a, b \in 1..5 :
       BucketSizes(ret.value.rows, "F_Score")[a]
         # BucketSizes(ret.value.rows, "F_Score")[b]

\* C3: Segment is a total function of RFM_Score alone: customers with the
\* same RFM_Score have the same Segment, every Segment is one of the seven
\* labels, and a code that is in none of the six code lists gets Others;
\* this holds of the codes of a run and of every 3-digit code over 1..5.
C3_SegmentOfCode ==
  /\ \A r, f, m \in 1..5 :
       LET code == RfmScore(r, f, m)
       IN /\ segment_customers(code) \in SegmentLabels
          /\ code \notin ListedCodes => segment_customers(code) = "Others"
  /\ Segmented =>
       LET out == ret.value.rows
       IN /\ \A i \in DOMAIN out :
               /\ out[i].Segment \in SegmentLabels
               /\ out[i].RFM_Score \notin ListedCodes => out[i].Segment = "Others"
          /\ \A i, j \in DOMAIN out :
               out[i].RFM_Score = out[j].RFM_Score
                 => out[i].Segment = out[j].Segment

\* two customers of one run share a listed code, a third has an unlisted one
C3_Witness ==
  /\ Segmented
  /\ \E i, j, k \in DOMAIN ret.value.rows :
       /\ i # j
       /\ ret.value.rows[i].RFM_Score = ret.value.rows[j].RFM_Score
       /\ ret.value.rows[i].RFM_Score \in ListedCodes
       /\ ret.value.rows[k].RFM_Score \notin ListedCodes
       /\ ret.value.rows[k].Segment = "Others"

\* C4: get_customer_segments fails, and returns no segmentation, whenever
\* the cleaned data holds fewer than 5 distinct customers.
C4_FewCustomersRejected ==
  (/\ SegmentsCalledOnCleaned
   /\ Cardinality(Members(cleaned_df.rows)) < 5) =>
    /\ ret.raised # NoError
    /\ ret.value = None

\* C5: with at least 5 distinct customers get_customer_segments completes
\* without error, whatever the customers' Recency values, and gives every
\* customer R_Score, F_Score and M_Score in 1..5 and an RFM_Score that is
\* the 3-character concatenation of the three, in that order.
C5_SegmentationCompletes ==
  (/\ SegmentsCalledOnCleaned
   /\ Cardinality(Members(cleaned_df.rows)) >= 5) =>
    /\ ret.raised = NoError
    /\ \A i \in DOMAIN ret.value.rows :
         LET row == ret.value.rows[i]
         IN /\ row.R_Score \in 1..5
            /\ row.F_Score \in 1..5
            /\ row.M_Score \in 1..5
            /\ Len(row.RFM_Score) = 3
            /\ row.RFM_Score = ToString(row.R_Score) \o ToString(row.F_Score)
                                 \o ToString(row.M_Score)

\* the days between a customer's purchases and the latest date of the table
DaysBeforeLatest(rows, c) ==
  LET mine == RowsOf(rows, c)
  IN {Ordinal(MaxTs(DatesOf(rows))) - Ordinal(mine[i].Date) : i \in DOMAIN mine}

\* C6: Recency is the number of days from the customer's own latest
\* purchase to the latest date of the whole dataset, so it is never
\* negative and is 0 for some customer; R_Score is anti-monotone in it, and
\* customers with equal Recency have equal R_Score.
C6_RecencyScore ==
  Segmented =>
    LET out == ret.value.rows
    IN /\ \A i \in DOMAIN out :
            LET days == DaysBeforeLatest(cleaned_df.rows, out[i].Member_number)
            IN /\ out[i].Recency \in days
               /\ \A d \in days : out[i].Recency <= d
               /\ out[i].Recency >= 0
       /\ \E i \in DOMAIN out : out[i].Recency = 0
       /\ \A i, j \in DOMAIN out :
            /\ out[i].Recency < out[j].Recency => out[i].R_Score >= out[j].R_Score
            /\ out[i].Recency = out[j].Recency => out[i].R_Score = out[j].R_Score

\* a run in which two customers share a Recency and a more recent customer
\* has a strictly higher R_Score than a less recent one
C6_Witness ==
  /\ Segmented
  /\ \E i, j \in DOMAIN ret.value.rows :
       /\ i # j
       /\ ret.value.rows[i].Recency = ret.value.rows[j].Recency
  /\ \E i, j \in DOMAIN ret.value.rows :
       /\ ret.value.rows[i].Recency < ret.value.rows[j].Recency
       /\ ret.value.rows[i].R_Score > ret.value.rows[j].R_Score

\* a score column never decreases with its metric, nor, among customers
\* with equal metric, with the position in the per-customer table
MonotoneFirstSeen(rows, metric, score) ==
  \A i, j \in DOMAIN rows :
    /\ rows[i][metric] < rows[j][metric] => rows[i][score] <= rows[j][score]
    /\ (rows[i][metric] = rows[j][metric] /\ i < j)
         => rows[i][score] <= rows[j][score]

\* C7: F_Score is monotone in Frequency and M_Score in Monetary, and of two
\* customers with the same raw value the one earlier in the per-customer
\* table never has the higher score.
C7_MonotoneScores ==
  Segmented =>
    /\ MonotoneFirstSeen(ret.value.rows, "Frequency", "F_Score")
    /\ MonotoneFirstSeen(ret.value.rows, "Monetary", "M_Score")

\* a run in which the tiebreak separates two customers of equal Frequency
\* and a customer of higher Frequency has the higher F_Score
C7_Witness ==
  /\ Segmented
  /\ \E i, j \in DOMAIN ret.value.rows :
       /\ i < j
       /\ ret.value.rows[i].Frequency = ret.value.rows[j].Frequency
       /\ ret.value.rows[i].F_Score < ret.value.rows[j].F_Score
  /\ \E i, j \in DOMAIN ret.value.rows :
       /\ ret.value.rows[i].Frequency < ret.value.rows[j].Frequency
       /\ ret.value.rows[i].F_Score < ret.value.rows[j].F_Score
  /\ \E i, j \in DOMAIN ret.value.rows :
       /\ i < j
       /\ ret.value.rows[i].Monetary = ret.value.rows[j].Monetary
       /\ ret.value.rows[i].M_Score < ret.value.rows[j].M_Score

(***************************************************************************)
(* Properties of the processor's stages.                                   *)
(***************************************************************************)
\* no clean_data call has succeeded yet: a successful one leaves a table
\* with a parsed Date column, and nothing ever removes it
NotYetCleaned == cleaned_df = None \/ cleaned_df.date_dtype # "datetime64"

NeedsCleaned == {"get_data_summary", "create_features", "get_customer_segments"}

\* C8: clean_data before a successful load_data raises the state error,
\* get_data_summary, create_features and get_customer_segments before a
\* successful clean_data raise the state error, and such a call leaves the
\* raw and the cleaned table unchanged.
C8_StagesGuarded ==
  [][/\ (ret'.op = "clean_data" /\ df = None) =>
          /\ ret'.raised = StateErrorNotLoaded
          /\ df' = df /\ cleaned_df' = cleaned_df
     /\ (ret'.op \in NeedsCleaned /\ NotYetCleaned) =>
          /\ ret'.raised = StateErrorNotCleaned
          /\ df' = df /\ cleaned_df' = cleaned_df]_vars

\* C9: clean_data raises the date-format error, and returns no table,
\* exactly when some row's Date is not a day-month-year date.
C9_DateFormat ==
  (ret.op = "clean_data" /\ df # None) =>
    /\ (ret.raised = DateFormatError /\ ret.value = None)
         <=> \E i \in DOMAIN df.rows : ~Parses(df.rows[i].Date)
    /\ ret.raised = NoError
         <=> \A i \in DOMAIN df.rows : Parses(df.rows[i].Date)

\* clean_data has failed on a table whose first row has a good date
C9_Witness ==
  /\ ret.op = "clean_data"
  /\ ret.raised = DateFormatError
  /\ Parses(df.rows[1].Date)

\* C10: a summary taken after load_data and clean_data, also after a
\* following create_features, reports as total_records the number of rows
\* of the raw input, as unique_customers its number of distinct
\* Member_number values and as unique_items its number of distinct items.
C10_SummaryCounts ==
  (ret.op = "get_data_summary" /\ ret.raised = NoError) =>
    /\ ret.value.total_records = Len(df.rows)
    /\ ret.value.unique_customers = Cardinality(Members(df.rows))
    /\ ret.value.unique_items = Cardinality(Items(df.rows))

\* a summary taken after create_features, of a table in which a customer
\* has several rows and bought one item twice
C10_Witness ==
  /\ ret.op = "get_data_summary"
  /\ ret.raised = NoError
  /\ "season" \in cleaned_df.cols
  /\ ret.value.unique_customers < ret.value.total_records
  /\ \E i, j \in DOMAIN df.rows :
       /\ i # j
       /\ df.rows[i].Member_number = df.rows[j].Member_number
       /\ df.rows[i].item = df.rows[j].item

(***************************************************************************)
(* Properties of clean_data and create_features.                           *)
(***************************************************************************)
Cleaned == ret.op = "clean_data" /\ ret.raised = NoError

\* C11: the table returned by clean_data has no column whose name contains
\* 'Unnamed', keeps every other column of the loaded table, and carries
\* day_of_month, month and year, read from the row's own Date, on every row.
C11_CleanedColumns ==
  Cleaned =>
    /\ \A col \in ret.value.cols : ~ContainsUnnamed(col)
    /\ \A col \in df.cols : ~ContainsUnnamed(col) => col \in ret.value.cols
    /\ {"day_of_month", "month", "year"} \subseteq ret.value.cols
    /\ Len(ret.value.rows) = Len(df.rows)
    /\ \A i \in DOMAIN ret.value.rows :
         /\ {"day_of_month", "month", "year"} \subseteq DOMAIN ret.value.rows[i]
         /\ ret.value.rows[i].day_of_month = df.rows[i].Date.dd
         /\ ret.value.rows[i].month = df.rows[i].Date.mm
         /\ ret.value.rows[i].year = df.rows[i].Date.yyyy

C11_Witness ==
  /\ Cleaned
  /\ \E col \in df.cols : ContainsUnnamed(col)
  /\ Len(ret.value.rows) >= 2

\* the table of a clean_data that returned, with or without the features of
\* create_features added to it
HasProfiles ==
  /\ cleaned_df # None
  /\ cleaned_df.date_dtype = "datetime64"
  /\ df # None

RawRowsOf(c) == RowsOf(df.rows, c)

\* C12: after clean_data every row carries the profile of its customer:
\* total_purchases is the customer's row count, unique_items the number of
\* distinct items (between 1 and total_purchases), tenure_days the days
\* from first_purchase to last_purchase (never negative), and
\* purchase_frequency is total_purchases over tenure_days + 1 (at least 1).
C12_CustomerProfile ==
  HasProfiles =>
    \A i \in DOMAIN cleaned_df.rows :
      LET r == cleaned_df.rows[i]
          raw == RawRowsOf(r.Member_number)
          dates == {ToDatetime(raw[k].Date) : k \in DOMAIN raw}
      IN /\ r.total_purchases = Len(raw)
         /\ r.unique_items = Cardinality({raw[k].item : k \in DOMAIN raw})
         /\ 1 <= r.unique_items
         /\ r.unique_items <= r.total_purchases
         /\ r.first_purchase \in dates
         /\ r.last_purchase \in dates
         /\ \A d \in dates : TsLE(r.first_purchase, d) /\ TsLE(d, r.last_purchase)
         /\ r.tenure_days = Ordinal(r.last_purchase) - Ordinal(r.first_purchase)
         /\ r.tenure_days >= 0
         /\ r.purchase_frequency.num = r.total_purchases
         /\ r.purchase_frequency.den = r.tenure_days + 1
         /\ r.purchase_frequency.den >= 1

C12_Witness ==
  /\ HasProfiles
  /\ \E i \in DOMAIN cleaned_df.rows :
       /\ cleaned_df.rows[i].tenure_days > 0
       /\ cleaned_df.rows[i].unique_items < cleaned_df.rows[i].total_purchases
  /\ \E i \in DOMAIN cleaned_df.rows : cleaned_df.rows[i].tenure_days = 0

Featured == ret.op = "create_features" /\ ret.raised = NoError

Seasons == {"Winter", "Spring", "Summer", "Fall"}

\* C13: after create_features every row has a season, and the season is the
\* one of the row's month: 12, 1, 2 Winter; 3, 4, 5 Spring; 6, 7, 8 Summer;
\* 9, 10, 11 Fall.
C13_SeasonOfMonth ==
  Featured =>
    \A i \in DOMAIN ret.value.rows :
      LET r == ret.value.rows[i]
      IN /\ "season" \in DOMAIN r
         /\ r.season \in Seasons
         /\ r.month \in {12, 1, 2} <=> r.season = "Winter"
         /\ r.month \in {3, 4, 5} <=> r.season = "Spring"
         /\ r.month \in {6, 7, 8} <=> r.season = "Summer"
         /\ r.month \in {9, 10, 11} <=> r.season = "Fall"

C13_Witness ==
  /\ Featured
  /\ \E i, j \in DOMAIN ret.value.rows :
       /\ ret.value.rows[i].month = 12
       /\ ret.value.rows[i].season = "Winter"
       /\ ret.value.rows[j].month = 1

\* C20: clean_data and create_features leave the loaded table alone: after
\* any sequence of them df still has the columns of the file, 'Unnamed'
\* ones included, its rows, and its Date cells as unparsed text.
C20_RawTableKept ==
  df # None =>
    /\ df.cols = file.cols
    /\ df.rows = file.rows
    /\ df.date_dtype = "object"
    /\ \A i \in DOMAIN df.rows : DOMAIN df.rows[i].Date = {"dd", "mm", "yyyy"}

C20_Witness ==
  /\ Featured
  /\ FeatureCalls(cleaned_df) = MaxFeatureCalls
  /\ \E col \in df.cols : ContainsUnnamed(col)
  /\ df = file
  /\ "season" \in cleaned_df.cols

(***************************************************************************)
(* Properties of the system runs.                                          *)
(***************************************************************************)
Campaigned ==
  /\ outcome.op = "run_marketing_campaigns"
  /\ outcome.raised = NoError

Segments == predictions.customer_segments

Mailed(type) ==
  {campaign_manager.sent_emails[i].customer_email :
     i \in {j \in DOMAIN campaign_manager.sent_emails :
              campaign_manager.sent_emails[j].campaign_type = type}}

CountOf(email) ==
  LET k == CHOOSE i \in DOMAIN Segments : Segments[i].email = email
  IN Segments[k].purchase_count

\* C14: the campaign buckets partition the customers by purchase count:
\* more than 10 is high-value, at most 3 low-engagement, 4 to 10 neither;
\* run_marketing_campaigns hands exactly the first group to the discount
\* campaign and the second to the voucher campaign, and no customer gets
\* both a discount and a voucher mail.
C14_CampaignBuckets ==
  Campaigned =>
    LET high == {k \in DOMAIN Segments : Segments[k].purchase_count > 10}
        low == {k \in DOMAIN Segments : Segments[k].purchase_count <= 3}
        regular == {k \in DOMAIN Segments : Segments[k].purchase_count \in 4..10}
        discounts == outcome.value.discount_results
    IN /\ high \cap low = {}
       /\ high \cup low \cup regular = DOMAIN Segments
       /\ discounts.high_value + discounts.regular + discounts.failed
            = Cardinality(high)
       /\ outcome.value.voucher_results <= Cardinality(low)
       /\ Mailed("discount") \subseteq {Segments[k].email : k \in high}
       /\ Mailed("voucher") \subseteq {Segments[k].email : k \in low}
       /\ Mailed("discount") \cap Mailed("voucher") = {}
       /\ ~config.configured =>
            /\ Mailed("discount") = {Segments[k].email : k \in high}
            /\ Mailed("voucher") = {Segments[k].email : k \in low}
            /\ outcome.value.voucher_results = Cardinality(low)

C14_Witness ==
  /\ Campaigned
  /\ \E e \in Mailed("discount") : CountOf(e) = 11
  /\ \E e \in Mailed("voucher") : CountOf(e) = 3
  /\ \E k \in DOMAIN Segments :
       /\ Segments[k].purchase_count \in {4, 10}
       /\ Segments[k].email \notin Mailed("discount") \cup Mailed("voucher")

\* the purchase history of a customer in the input file
History(c) == Items(RowsOf(file.rows, c))

Recommended ==
  /\ predictions # None
  /\ \A k \in DOMAIN Segments : "product_recommendations" \in DOMAIN Segments[k]

\* run_predictive_modeling has just returned
Modelled ==
  /\ outcome.op = "run_predictive_modeling"
  /\ outcome.raised = NoError

\* C15: no item of a customer's product_recommendations is in the
\* customer's own purchase history.
C15_RecommendationsAreNew ==
  Modelled =>
    \A k \in DOMAIN Segments :
      Range(Segments[k].product_recommendations)
        \cap History(Segments[k].Member_number) = {}

C15_Witness ==
  /\ Modelled
  /\ \E k, l \in DOMAIN Segments :
       /\ Segments[k].product_recommendations # <<>>
       /\ Range(Segments[k].product_recommendations)
            \cap History(Segments[l].Member_number) # {}

\* the number of customers whose history holds both items
CoOccurrence(a, b) ==
  Cardinality({c \in Members(file.rows) : {a, b} \subseteq History(c)})

\* the affinity of an item to the history of a customer
Affinity(c, it) ==
  SumOver(History(c), [p \in History(c) |-> CoOccurrence(it, p)])

Before(c, a, b) ==
  \/ Affinity(c, a) > Affinity(c, b)
  \/ Affinity(c, a) = Affinity(c, b) /\ a < b

\* C16: a customer's recommendations are items the customer has not bought,
\* scored by the sum of the co-occurrence counts to the items the customer
\* bought; the list holds at most 5 of them, the best first: score
\* descending, equal scores by item identifier; an item left out scores no
\* better than the last one listed.
C16_TopScoredItems ==
  Modelled =>
    \A k \in DOMAIN Segments :
      LET c == Segments[k].Member_number
          list == Segments[k].product_recommendations
          candidates == {it \in Items(file.rows) \ History(c) : Affinity(c, it) > 0}
      IN /\ Len(list) <= TopN
         /\ Range(list) \subseteq candidates
         /\ \A i, j \in DOMAIN list : i < j => Before(c, list[i], list[j])
         /\ \A a, b \in Items(file.rows) : CoOccurrence(a, b) = CoOccurrence(b, a)
         /\ \A it \in candidates \ Range(list) :
              /\ Len(list) = TopN
              /\ Before(c, list[TopN], it)

C16_Witness ==
  /\ Modelled
  /\ \E k \in DOMAIN Segments :
       LET c == Segments[k].Member_number
           list == Segments[k].product_recommendations
       IN /\ Len(list) = TopN
          /\ \E it \in Items(file.rows) \ (History(c) \cup Range(list)) :
               Affinity(c, it) > 0
          /\ \E i \in 1..(TopN - 1) :
               /\ list[i] > list[i + 1]
               /\ Affinity(c, list[i]) > Affinity(c, list[i + 1])
          /\ \E i \in 1..(TopN - 1) :
               Affinity(c, list[i]) = Affinity(c, list[i + 1])

\* a customer none of whose items was bought together with an item new to
\* the customer
NothingToRecommend(c) ==
  \A d \in Members(file.rows) :
    History(c) \cap History(d) = {} \/ History(d) \subseteq History(c)

\* C17: a customer without history, without co-purchases or with every
\* known item bought gets the empty list and no error; predictive modeling
\* comes back all the same, and no recommendation mail goes to a customer
\* whose list is empty.
C17_EmptyRecommendations ==
  /\ outcome.op = "get_product_recommendations" =>
       /\ outcome.raised = NoError
       /\ History(outcome.value.customer_id) = {}
       /\ outcome.value.items = <<>>
  /\ Modelled =>
       \A k \in DOMAIN Segments :
         Segments[k].product_recommendations = <<>>
           <=> NothingToRecommend(Segments[k].Member_number)
  /\ outcome.op = "run_predictive_modeling" =>
       outcome.raised \in {NoError, "running", StateErrorNotProcessed}
  /\ pc = "product_recommendations" => predictions # None
  /\ campaign_manager # None /\ Recommended =>
       \A i \in DOMAIN campaign_manager.sent_emails :
         LET mail == campaign_manager.sent_emails[i]
         IN mail.campaign_type = "recommendations" =>
              /\ mail.products # <<>>
              /\ \E k \in DOMAIN Segments :
                   /\ Segments[k].email = mail.customer_email
                   /\ Segments[k].product_recommendations = mail.products

C17_Witness ==
  /\ Campaigned
  /\ Recommended
  /\ \E k, l \in DOMAIN Segments :
       /\ Segments[k].product_recommendations = <<>>
       /\ History(Segments[k].Member_number) # Items(file.rows)
       /\ Segments[k].email \notin Mailed("recommendations")
       /\ Segments[l].product_recommendations # <<>>
       /\ Segments[l].email \in Mailed("recommendations")

Trained == components /\ predictor.best_model # None

\* a call of run_predictive_modeling without processed data
ModelingWithoutData ==
  /\ pc = "idle"
  /\ processed_data = None
  /\ outcome'.op = "run_predictive_modeling"

\* C19: predictions are never asked of an untrained model: a direct request
\* before training fails with the untrained-model error; inside
\* run_predictive_modeling the predicting call starts only with a trained
\* predictor, after train_models has come back; and run_predictive_modeling
\* without processed data raises the state error, starts no step and
\* trains nothing.
C19_TrainBeforePredict ==
  /\ [](pc = "get_customer_recommendations" => Trained)
  /\ [](pc \in Range(ModelingSteps) => processed_data # None)
  /\ [](outcome.op = "get_customer_recommendations" =>
          (outcome.raised = UntrainedModelError <=> ~Trained))
  /\ [](outcome.op = "run_predictive_modeling" =>
          outcome.raised # UntrainedModelError)
  /\ [][ModelingWithoutData =>
          /\ outcome'.raised = StateErrorNotProcessed
          /\ pc' = "idle"
          /\ predictor' = predictor
          /\ predictions' = predictions]_vars

C19_Witness ==
  /\ pc = "get_customer_recommendations"
  /\ Trained
  /\ predictions = None

(***************************************************************************)
(* Properties of the code lists of segment_customers.                      *)
(***************************************************************************)
CodeLists ==
  <<[label |-> "Champions", codes |-> Champions],
    [label |-> "Loyal Customers", codes |-> LoyalCustomers],
    [label |-> "Potential Loyalists", codes |-> PotentialLoyalists],
    [label |-> "New Customers", codes |-> NewCustomers],
    [label |-> "At Risk", codes |-> AtRisk],
    [label |-> "Cannot Lose Them", codes |-> CannotLoseThem]>>

\* the labels of the lists that hold a code
LabelsOf(code) ==
  {CodeLists[k].label : k \in {i \in DOMAIN CodeLists : code \in CodeLists[i].codes}}

\* the lists tested in the order given, the first hit deciding
RECURSIVE FirstHit(_, _)
FirstHit(code, order) ==
  IF order = <<>> THEN "Others"
  ELSE IF code \in CodeLists[Head(order)].codes THEN CodeLists[Head(order)].label
  ELSE FirstHit(code, Tail(order))

\* every order in which the six lists can be tested
Orders ==
  {o \in [DOMAIN CodeLists -> DOMAIN CodeLists] :
     \A i, j \in DOMAIN CodeLists : i # j => o[i] # o[j]}

\* C22: segment_customers is a lookup by exact match with default Others:
\* the six code lists are pairwise disjoint, every listed code is made of
\* three digits in 1..5, and for each of the 125 codes the label does not
\* depend on the order in which the lists are tested.
C22_LookupTable ==
  ret.op = "segment_customers" =>
    LET code == ret.value.RFM_Score
    IN /\ code \in RfmCodes
       /\ Cardinality(LabelsOf(code)) <= 1
       /\ LabelsOf(code) = {} => ret.value.Segment = "Others"
       /\ LabelsOf(code) # {} => LabelsOf(code) = {ret.value.Segment}
       /\ \A o \in Orders : FirstHit(code, o) = ret.value.Segment
       /\ \A i, j \in DOMAIN CodeLists :
            i # j => CodeLists[i].codes \cap CodeLists[j].codes = {}
       /\ ListedCodes \subseteq RfmCodes

C22_Witness ==
  /\ ret.op = "segment_customers"
  /\ ret.value.RFM_Score = "124"
  /\ ret.value.Segment = "Cannot Lose Them"

(***************************************************************************)
(* Properties of a clean_data that raised.                                 *)
(***************************************************************************)
\* the counters of the manager
Stats == campaign_manager.email_stats

\* C21: a new EmailCampaignManager has all four counters at 0, and after any
\* sequence of discount, voucher and recommendation campaigns, dry-run or
\* not, with sends that succeed and sends that fail, total_sent is the sum
\* of discounts_sent, vouchers_sent and recommendations_sent and the number
\* of recorded sent emails; the campaigns_by_type counts of the report are
\* the three per-type counters.
C21_CountersAgree ==
  /\ outcome.op = "__init__" =>
        /\ Stats.total_sent = 0
        /\ Stats.discounts_sent = 0
        /\ Stats.vouchers_sent = 0
        /\ Stats.recommendations_sent = 0
  /\ Stats.total_sent
       = Stats.discounts_sent + Stats.vouchers_sent + Stats.recommendations_sent
  /\ Stats.total_sent = Len(campaign_manager.sent_emails)
  /\ outcome.op = "get_campaign_report" =>
        LET by_type == outcome.value.campaigns_by_type
        IN /\ by_type.discount = Stats.discounts_sent
           /\ by_type.voucher = Stats.vouchers_sent
           /\ by_type.recommendations = Stats.recommendations_sent

\* a report after campaigns of all three types have sent mail
C21_Witness ==
  /\ outcome.op = "get_campaign_report"
  /\ outcome.value.campaigns_by_type.discount > 0
  /\ outcome.value.campaigns_by_type.voucher > 0
  /\ outcome.value.campaigns_by_type.recommendations > 0

\* the constructor of the session came back
Opened(session) == session # <<>> /\ session[1].ok

\* the session was quit, or its socket closed by the runtime
Closed(session) ==
  \E k \in DOMAIN session : session[k].call \in {"quit", "finalize"}

\* C24: every SMTP session that send_email opens is closed before
\* send_email returns, on success and on every failure path (TLS
\* negotiation, login or send failing), so no connection stays open after
\* a campaign call.
C24_SessionsClosed ==
  \A k \in DOMAIN network : Opened(network[k]) => Closed(network[k])

\* C25: send_email opens a network connection only when dry_run is false
\* and both the address and the password are configured; with dry_run true
\* or credentials missing it returns True without network activity; it
\* always returns a boolean and never raises (a failed transport gives
\* False).
C25_NetworkOnlyWhenConfigured ==
  outcome.op = "send_email" =>
    /\ outcome.raised = NoError
    /\ outcome.value \in BOOLEAN
    /\ network[1] # <<>> => ~args.dry_run /\ config.configured
    /\ (args.dry_run \/ ~config.configured) =>
          outcome.value = TRUE /\ network[1] = <<>>
    /\ outcome.value = FALSE =>
          \E k \in DOMAIN network[1] : ~network[1][k].ok

\* a send that is no dry run, made without credentials
C25_Witness ==
  /\ outcome.op = "send_email"
  /\ ~args.dry_run
  /\ ~config.configured
  /\ outcome.value = TRUE
  /\ network = << <<>> >>

\* C26: create_discount_campaign never raises, whatever the customer table:
\* a record that lacks name or email, the first one included, is counted
\* under 'failed', the remaining customers are processed, and high_value +
\* regular + failed is the number of rows.
C26_DiscountNeverRaises ==
  outcome.op = "create_discount_campaign" =>
    /\ outcome.raised = NoError
    /\ LET stats == outcome.value.stats
       IN stats.high_value + stats.regular + stats.failed = Len(args.customers)

\* C27: after a clean_data that raised, a following get_data_summary,
\* create_features or get_customer_segments raises the 'data not cleaned'
\* state error.
C27_FailedCleanNotCleaned ==
  [][(/\ ret.op = "clean_data"
      /\ ret.raised # NoError
      /\ ret'.op \in NeedsCleaned) => ret'.raised = StateErrorNotCleaned]_vars

\* C28: every customer that run_marketing_campaigns selects as high-value
\* (purchase_count > 10) and hands to create_discount_campaign is counted
\* under 'high_value', never under 'regular', and is offered the high-value
\* discount.
C28_HighValueOffered ==
  Campaigned =>
    LET high == {k \in DOMAIN Segments : Segments[k].purchase_count > 10}
        discounts == outcome.value.discount_results
        sent == campaign_manager.sent_emails
    IN /\ discounts.high_value = Cardinality(high)
       /\ discounts.regular = 0
       /\ \A i \in DOMAIN sent :
            sent[i].campaign_type = "discount" =>
              sent[i].discount_percent = HighValueDiscount

\* data analysis, segmentation included, has completed
AnalysisCompleted ==
  /\ processed_data # None
  /\ rfm_analysis # None
  /\ dashboard # None

\* predictive modeling has completed
ModelingCompleted ==
  /\ Trained
  /\ predictions # None
  /\ \A k \in DOMAIN predictions.customer_segments :
       "product_recommendations" \in DOMAIN predictions.customer_segments[k]

\* a campaign mail was sent, or a send was tried
MailSent ==
  \/ network # <<>>
  \/ components /\ campaign_manager.sent_emails # <<>>

\* a file of save_results was written
ResultSaved ==
  saved \cap {"processed_customer_data.csv", "customer_segmentation_rfm.csv",
              "customer_predictions.csv", "customer_behavior_model.joblib",
              "campaign_results.csv"} # {}

\* the place of a stage in the run
PlaceOf(name) == CHOOSE i \in DOMAIN Stages : Stages[i] = name

\* C23: run_complete_analysis runs its stages in a fixed order: initialize,
\* data analysis, predictive modeling, marketing campaigns, visualizations,
\* save.  When a stage raises, its error leaves the run, the stage is not
\* tried again and no later stage runs; so no campaign mail is sent and no
\* result is saved unless data analysis, segmentation included, and
\* predictive modeling have both completed.
C23_StagesInOrder ==
  /\ [](/\ (MailSent \/ ResultSaved) => AnalysisCompleted /\ ModelingCompleted
        /\ stage = "raised" =>
              /\ outcome.raised \notin {NoError, "running"}
              /\ PlaceOf(outcome.op) < PlaceOf("run_marketing_campaigns") => ~MailSent
              /\ PlaceOf(outcome.op) < PlaceOf("generate_visualizations") => saved = {}
              /\ PlaceOf(outcome.op) < PlaceOf("save_results") => ~ResultSaved
        /\ stage = "returned" =>
              AnalysisCompleted /\ ModelingCompleted /\ ResultSaved)
  /\ [][/\ stage \in {"raised", "returned"} => UNCHANGED vars
        /\ stage' # stage =>
              \/ stage = "none" /\ stage' = Stages[1]
              \/ /\ stage \in Range(Stages)
                 /\ outcome'.op = stage
                 /\ \/ stage' = StageAfter(stage) /\ outcome'.raised = NoError
                    \/ stage' = "raised" /\ outcome'.raised # NoError]_vars

\* a run whose data analysis raised in the segmentation, after the cleaning:
\* no mail, no file
C23_Witness ==
  /\ stage = "raised"
  /\ outcome.op = "run_data_analysis"
  /\ processed_data # None
  /\ rfm_analysis = None
  /\ ~MailSent
  /\ saved = {}
====
